---- MODULE Spec2Model ----
(***************************************************************************)
(* goodpocket: the deduplication-and-clustering pipeline.                  *)
(*                                                                         *)
(*   backend/app/jobs/batch_processor.py   the periodic two-phase job      *)
(*   backend/app/services/clustering.py    the three-tier clusterer and    *)
(*                                         the cluster labeler             *)
(*   backend/app/services/dedup.py         simhash grouping (union-find)   *)
(*                                                                         *)
(* The store (Postgres) is modelled as the tables the code reads and       *)
(* writes; every db.fetch / db.execute is one atomic step (autocommit).    *)
(***************************************************************************)
EXTENDS Integers, Sequences, FiniteSets, TLC

VARIABLES
    bookmarks,   \* table bookmarks: item id -> row
    clusters,    \* table clusters: set of rows
    job,         \* per invocation of run_batch_job: its locals and position
    runs,        \* invocations started so far (clock behind utcnow())
    faults,      \* exceptions the environment has raised so far
    kills,       \* invocations terminated from outside so far
    lib,         \* behaviour of umap/hdbscan/sklearn on each owner's vectors
    snap,        \* per invocation: the store as it was when it returned
    cs,          \* one call of _cluster_sync: arguments, position, result
    dd,          \* one call of group_by_simhash: argument and result
    mg           \* migrate_to_dup_topics: its tables, checkpoint and position

vars == <<bookmarks, clusters, job, runs, faults, kills, lib, snap, cs, dd, mg>>

batchVars == <<bookmarks, clusters, job, runs, faults, kills, lib, snap>>

(***************************************************************************)
(* Bounds of the model.                                                    *)
(***************************************************************************)
NOwners == 2
PerOwner == 5
MaxRuns == 2
\* Disruptions injected in one behaviour: awaits that raise plus external
\* terminations of the process.
MaxFaults == 1
\* Longest list of vectors handed to _cluster_sync on its own.
MaxVecs == 5
\* Longest list of rows handed to group_by_simhash.
MaxRows == 3
\* Width of a fingerprint in the model (64 in the program).
FpBits == 6

(***************************************************************************)
(* Program constants.                                                      *)
(***************************************************************************)
EMBEDDING_BATCH_SIZE == 50
CLUSTERING_MIN_BOOKMARKS == 5
TOP_N == 5
SIMHASH_HAMMING_THRESHOLD == 3

\* SQL NULL / Python None for integer columns, and for the vector column.
None == -2
NoVec == -1

Owners == 1..NOwners
\* One more item than NOwners * PerOwner: the last owner gets one extra item.
NItems == NOwners * PerOwner + 1
Items == 1..NItems
Jobs == 1..MaxRuns

Min(a, b) == IF a <= b THEN a ELSE b
Max(a, b) == IF a >= b THEN a ELSE b

RECURSIVE SortedSeq(_)
\* ORDER BY over a set of ids (created_at ascends with the id).
SortedSeq(S) ==
    IF S = {} THEN <<>>
    ELSE LET m == CHOOSE x \in S : \A y \in S : x <= y
         IN  <<m>> \o SortedSeq(S \ {m})

Take(s, n) == SubSeq(s, 1, Min(n, Len(s)))

Range(s) == {s[k] : k \in 1..Len(s)}

(***************************************************************************)
(* Immutable columns of the bookmarks, as ingestion stored them.           *)
(***************************************************************************)
OwnerOf(i) == Min(((i - 1) \div PerOwner) + 1, NOwners)

\* tags column (ordered list).
TagsOf(i) ==
    CASE i % 4 = 0 -> <<"ai", "ml">>
      [] i % 4 = 1 -> <<"ml">>
      [] i % 4 = 2 -> << >>
      [] OTHER     -> <<"db", "ai">>

\* The vector the embedding model returns for the item's text, as a point on
\* a line: two vectors have cosine similarity >= 0.7 iff they are adjacent.
VecOf(i) == (i * 3) % 7

\* cluster_labels.get(cluster_id) of an id without label: None.
NoLabel == [kind |-> "none", tags |-> << >>, id |-> 0]

(***************************************************************************)
(* services/clustering.py                                                  *)
(***************************************************************************)
\* What the third-party libraries do on one owner's vectors.  The libraries
\* are deterministic (random_state=42), so the behaviour is fixed per input.
\*   hdbscan       umap + hdbscan return labels
\*   all_noise     umap + hdbscan return -1 for every point
\*   import_error  "import umap" / "import hdbscan" raises
\*   fit_error     fit_transform / fit_predict raises
\*   both_fail     the imports raise and sklearn's cosine_similarity raises
Modes == {"hdbscan", "all_noise", "import_error", "fit_error", "both_fail"}

Raised == [raised |-> TRUE, labels |-> << >>]
Returned(l) == [raised |-> FALSE, labels |-> l]

RECURSIVE Repeat(_, _)
\* [x] * n
Repeat(x, n) == IF n <= 0 THEN << >> ELSE Append(Repeat(x, n - 1), x)

Zeros(n) == Repeat(0, n)

\* clusterer.fit_predict(reduced): the density label of a point.
fit_predict(v) == IF v <= 2 THEN 0 ELSE IF v <= 4 THEN 1 ELSE -1

_cluster_with_hdbscan(embeddings, mode) ==
    LET n_samples == Len(embeddings)
    IN  IF mode \in {"import_error", "both_fail"} THEN Raised
        ELSE IF n_samples < 5 THEN Returned(Zeros(n_samples))
        ELSE IF mode = "fit_error" THEN Raised
        ELSE IF mode = "all_noise"
             THEN Returned(Repeat(-1, n_samples))
             ELSE Returned([k \in 1..n_samples |-> fit_predict(embeddings[k])])

\* similarity[i, j] >= threshold (0.7)
Similar(v, w) == (v - w) \in {-1, 0, 1}

\* Variant without "adjacency[j].append(i)".
Adjacency_forward(embeddings, i) ==
    SortedSeq({j \in 1..Len(embeddings) :
                  j > i /\ Similar(embeddings[i], embeddings[j])})

\* adjacency[i]: ascending list of the other nodes similar to node i.
Adjacency(embeddings, i) ==
    SortedSeq({j \in 1..Len(embeddings) :
                  j /= i /\ Similar(embeddings[i], embeddings[j])})

RECURSIVE SelectUnlabelled(_, _)
\* [neighbor for neighbor in s if labels[neighbor] == -1]
SelectUnlabelled(labels, s) ==
    IF s = << >> THEN << >>
    ELSE IF labels[Head(s)] = -1
         THEN <<Head(s)>> \o SelectUnlabelled(labels, Tail(s))
         ELSE SelectUnlabelled(labels, Tail(s))

RECURSIVE BFS(_, _, _, _)
\* the "while queue" loop of one start node
BFS(embeddings, labels, queue, current_label) ==
    IF queue = << >> THEN labels
    ELSE LET node == Head(queue)
         IN  IF labels[node] /= -1
             THEN BFS(embeddings, labels, Tail(queue), current_label)
             ELSE LET l2 == [labels EXCEPT ![node] = current_label]
                  IN  BFS(embeddings, l2,
                          Tail(queue) \o SelectUnlabelled(l2, Adjacency(embeddings, node)),
                          current_label)

RECURSIVE Components(_, _, _, _)
\* the "for start in range(n_samples)" loop
Components(embeddings, labels, start, current_label) ==
    IF start > Len(embeddings) THEN labels
    ELSE IF labels[start] /= -1
         THEN Components(embeddings, labels, start + 1, current_label)
         ELSE Components(embeddings,
                         BFS(embeddings, labels, <<start>>, current_label),
                         start + 1, current_label + 1)

_cluster_with_cosine_threshold(embeddings, mode) ==
    LET n_samples == Len(embeddings)
    IN  IF mode = "both_fail" THEN Raised
        ELSE IF n_samples < 2 THEN Returned(Zeros(n_samples))
        ELSE Returned(Components(embeddings, Repeat(-1, n_samples), 1, 0))

_cluster_sync(embeddings_list, mode) ==
    IF embeddings_list = << >> THEN << >>
    ELSE LET primary == _cluster_with_hdbscan(embeddings_list, mode)
         IN  IF ~ primary.raised THEN primary.labels
             ELSE LET fallback == _cluster_with_cosine_threshold(embeddings_list, mode)
                  IN  IF ~ fallback.raised THEN fallback.labels
                      ELSE Zeros(Len(embeddings_list))

cluster_user_bookmarks(embeddings, mode) ==
    IF embeddings = << >> THEN << >> ELSE _cluster_sync(embeddings, mode)

\* Ids of a list in first-seen order, without repetition (dict insertion order).
RECURSIVE FirstSeen(_)
FirstSeen(s) ==
    IF s = << >> THEN << >>
    ELSE LET init == FirstSeen(SubSeq(s, 1, Len(s) - 1))
             x == s[Len(s)]
         IN  IF x \in Range(init) THEN init ELSE Append(init, x)

RECURSIVE Flatten(_)
Flatten(ss) == IF ss = << >> THEN << >> ELSE Head(ss) \o Flatten(Tail(ss))

Count(s, x) == Cardinality({k \in 1..Len(s) : s[k] = x})

FirstPos(s, x) == CHOOSE k \in 1..Len(s) : s[k] = x /\ \A m \in 1..(k - 1) : s[m] /= x

\* Variant that keeps the first-seen order whatever the counts.
most_common_seen(tags, top_n) == Take(FirstSeen(tags), top_n)

\* Counter(tags).most_common(top_n): descending count, ties in first-seen order.
most_common(tags, top_n) ==
    LET d == FirstSeen(tags)
        Before(a, b) == \/ Count(tags, a) > Count(tags, b)
                        \/ /\ Count(tags, a) = Count(tags, b)
                           /\ FirstPos(tags, a) < FirstPos(tags, b)
        Rank(a) == 1 + Cardinality({b \in Range(d) : Before(b, a)})
        sorted == [r \in 1..Len(d) |-> CHOOSE a \in Range(d) : Rank(a) = r]
    IN  Take(sorted, top_n)

\* cluster_tags[cluster_id]: the members' tag lists, concatenated in order.
ClusterTags(cluster_assignments, tags_list, cluster_id) ==
    LET n == Min(Len(cluster_assignments), Len(tags_list))
    IN  Flatten([k \in 1..n |->
                    IF cluster_assignments[k] = cluster_id
                    THEN tags_list[k] ELSE << >>])

\* The dict returned: its keys are the non-noise ids of the assignment.
generate_cluster_labels(cluster_assignments, tags_list, top_n) ==
    LET n == Min(Len(cluster_assignments), Len(tags_list))
        keys == {cluster_assignments[k] : k \in 1..n}
    IN  [cluster_id \in {c \in keys : c >= 0} |->
            LET tags == ClusterTags(cluster_assignments, tags_list, cluster_id)
            IN  IF tags = << >>
                THEN [kind |-> "default", tags |-> << >>, id |-> cluster_id]
                ELSE [kind |-> "tags", tags |-> most_common(tags, top_n), id |-> 0]]

\* dict.get(key): None when the key is missing.
Get(d, key) == IF key \in DOMAIN d THEN d[key] ELSE NoLabel

(***************************************************************************)
(* jobs/batch_processor.py: the store and the job's locals                 *)
(***************************************************************************)
\* generate_embeddings_batch gives None for a text shorter than 5 characters.
TextOk(i) == i /= NItems

NewBookmark(i) ==
    [user_id |-> OwnerOf(i), status |-> "pending_embedding", embedding |-> NoVec,
     embedded_at |-> None, cluster_id |-> None, cluster_label |-> NoLabel,
     tags |-> TagsOf(i)]

NewStats ==
    [embeddings_processed |-> 0, embeddings_failed |-> 0,
     users_clustered |-> 0, errors |-> << >>]

\* fetches: the number of rows of each fetch of the embedding loop so far.
IdleJob ==
    [pc |-> "idle", killed_at |-> "", stats |-> NewStats,
     processed |-> 0, failed |-> 0,
     rows |-> << >>, embeddings |-> << >>, k |-> 0, fetches |-> << >>,
     user_rows |-> << >>, u |-> 0, users_processed |-> 0,
     bookmark_ids |-> << >>, cluster_assignments |-> << >>,
     cluster_labels |-> << >>, cluster_sizes |-> << >>, cluster_version |-> 0]

Running(j) == job[j].pc \notin {"idle", "done", "killed"}

RECURSIVE OrderLimit(_, _)
\* ORDER BY created_at ASC LIMIT $1 over a set of ids: Take(SortedSeq(S),
\* limit), without sorting the rows beyond the limit.
OrderLimit(S, limit) ==
    IF S = {} \/ limit <= 0 THEN << >>
    ELSE LET m == CHOOSE x \in S : \A y \in S : x <= y
         IN  <<m>> \o OrderLimit(S \ {m}, limit - 1)

\* Variant whose LIMIT is one row too long.
FetchPending_long(limit) ==
    OrderLimit({i \in DOMAIN bookmarks : bookmarks[i].status = "pending_embedding"},
               limit + 1)

\* WHERE status = 'pending_embedding' ORDER BY created_at ASC LIMIT $1
FetchPending(limit) ==
    OrderLimit({i \in DOMAIN bookmarks : bookmarks[i].status = "pending_embedding"}, limit)

\* Variant without the status and vector conditions of the WHERE clause.
FetchEmbedded_any(user_id) ==
    SortedSeq({i \in Items : bookmarks[i].user_id = user_id})

\* WHERE user_id = $1 AND status = 'embedded' AND embedding IS NOT NULL
\* (no ORDER BY: the rows come in the order of the table, which is the order
\* of insertion and which the updates of the job leave as it is)
FetchEmbedded(user_id) ==
    SortedSeq({i \in Items : /\ bookmarks[i].user_id = user_id
                             /\ bookmarks[i].status = "embedded"
                             /\ bookmarks[i].embedding /= NoVec})

\* GROUP BY user_id HAVING COUNT(*) >= $1
FetchEligibleUsers(minimum) ==
    SortedSeq({o \in Owners : Len(FetchEmbedded(o)) >= minimum})

\* generate_embeddings_batch: one result per text, None where it failed.
generate_embeddings_batch(ids, model_ok) ==
    [k \in 1..Len(ids) |-> IF model_ok /\ TextOk(ids[k]) THEN VecOf(ids[k]) ELSE NoVec]

RECURSIVE NonNoise(_)
\* [c for c in cluster_assignments if c >= 0]
NonNoise(a) ==
    IF a = << >> THEN << >>
    ELSE IF Head(a) >= 0 THEN <<Head(a)>> \o NonNoise(Tail(a)) ELSE NonNoise(Tail(a))

\* Variant without "if cluster_id >= 0": noise is counted like a cluster.
CountClusterSizes_noise(cluster_assignments) ==
    LET ids == FirstSeen(cluster_assignments)
    IN  [k \in 1..Len(ids) |-> <<ids[k], Count(cluster_assignments, ids[k])>>]

\* The cluster_sizes dict, as the list of its (cluster_id, size) items.
CountClusterSizes(cluster_assignments) ==
    LET ids == FirstSeen(NonNoise(cluster_assignments))
    IN  [k \in 1..Len(ids) |-> <<ids[k], Count(cluster_assignments, ids[k])>>]

\* The store as a caller sees it once run_batch_job has returned.
Observe(bm, cl) ==
    [items |-> [i \in Items |-> <<bm[i].status, bm[i].cluster_id, bm[i].cluster_label>>],
     rows |-> {<<r.user_id, r.cluster_id, r.label, r.size>> : r \in cl},
     nrows |-> Cardinality(cl)]

\* Variant without the top-level guard: the exception leaves run_batch_job.
JobFailed_unguarded(jr, message) ==
    [jr EXCEPT !.pc = "raised"]

\* "except Exception as e: stats['errors'].append(str(e))", then return stats.
JobFailed(jr, message) ==
    [jr EXCEPT !.pc = "done", !.stats.errors = Append(@, message)]

\* The end of one pass of "for user_row in user_rows": the next owner, or
\* the return of run_clustering_for_all_users and of run_batch_job.
AfterOwner(jr, counted) ==
    LET up == IF counted THEN jr.users_processed + 1 ELSE jr.users_processed
        cleared == [jr EXCEPT !.users_processed = up, !.k = 0,
                              !.bookmark_ids = << >>, !.cluster_assignments = << >>,
                              !.cluster_labels = << >>, !.cluster_sizes = << >>,
                              !.cluster_version = 0]
    IN  IF jr.u < Len(jr.user_rows)
        THEN [cleared EXCEPT !.pc = "cluster_fetch", !.u = jr.u + 1]
        ELSE [cleared EXCEPT !.pc = "done", !.stats.users_clustered = up]

\* snap[j] is taken in the step that lets invocation j return.
Snap(j, jr, bm, cl) ==
    IF jr.pc = "done" THEN [snap EXCEPT ![j] = Observe(bm, cl)] ELSE snap

(***************************************************************************)
(* run_batch_job, one step per await on the store                          *)
(***************************************************************************)
\* Variant that puts the failed items back in the queue when it starts.
Trigger_retry(j) ==
    /\ job[j].pc = "idle"
    /\ \A h \in Jobs : ~ Running(h)
    /\ \A h \in Jobs : h < j => job[h].pc /= "idle"
    /\ job' = [job EXCEPT ![j] = [IdleJob EXCEPT !.pc = "embed_fetch"]]
    /\ runs' = runs + 1
    /\ bookmarks' = [i \in Items |->
                        IF bookmarks[i].status = "failed"
                        THEN [bookmarks[i] EXCEPT !.status = "pending_embedding"]
                        ELSE bookmarks[i]]
    /\ UNCHANGED <<clusters, faults, kills, lib, snap>>

\* The scheduler invokes run_batch_job once the previous invocation is over.
Trigger(j) ==
    /\ job[j].pc = "idle"
    /\ \A h \in Jobs : ~ Running(h)
    /\ \A h \in Jobs : h < j => job[h].pc /= "idle"
    /\ job' = [job EXCEPT ![j] = [IdleJob EXCEPT !.pc = "embed_fetch"]]
    /\ runs' = runs + 1
    /\ UNCHANGED <<bookmarks, clusters, faults, kills, lib, snap>>

\* process_pending_embeddings: the fetch at the head of "while True", the
\* break on an empty result, else the embedding of the fetched texts.
EmbedFetch(j) ==
    /\ job[j].pc = "embed_fetch"
    /\ LET rows == FetchPending(EMBEDDING_BATCH_SIZE)
           jr == job[j]
       IN  IF rows = << >>
           THEN /\ job' = [job EXCEPT ![j] =
                              [jr EXCEPT !.pc = "cluster_enum",
                                         !.fetches = Append(@, 0),
                                         !.stats.embeddings_processed = jr.processed,
                                         !.stats.embeddings_failed = jr.failed]]
                /\ UNCHANGED faults
           ELSE \E model_ok \in BOOLEAN :
                /\ model_ok \/ faults + kills < MaxFaults
                /\ faults' = IF model_ok THEN faults ELSE faults + 1
                /\ job' = [job EXCEPT ![j] =
                              [jr EXCEPT !.pc = "embed_write", !.rows = rows, !.k = 1,
                                         !.fetches = Append(@, Len(rows)),
                                         !.embeddings = generate_embeddings_batch(rows, model_ok)]]
    /\ UNCHANGED <<bookmarks, clusters, runs, kills, lib, snap>>

\* db.fetch raises in process_pending_embeddings: caught by run_batch_job.
EmbedFetchRaises(j) ==
    /\ job[j].pc = "embed_fetch"
    /\ faults + kills < MaxFaults
    /\ faults' = faults + 1
    /\ job' = [job EXCEPT ![j] = JobFailed(job[j], "fetch pending failed")]
    /\ snap' = Snap(j, job'[j], bookmarks, clusters)
    /\ UNCHANGED <<bookmarks, clusters, runs, kills, lib>>

\* Variant without "while True": one batch, then the clustering.
AfterWrite_once(jr) ==
    IF jr.k < Len(jr.rows)
    THEN [jr EXCEPT !.k = jr.k + 1]
    ELSE [jr EXCEPT !.pc = "cluster_enum", !.k = 0, !.rows = << >>, !.embeddings = << >>,
                    !.stats.embeddings_processed = jr.processed,
                    !.stats.embeddings_failed = jr.failed]

\* The position after one pass of "for bookmark_id, embedding in zip(...)".
AfterWrite(jr) ==
    IF jr.k < Len(jr.rows)
    THEN [jr EXCEPT !.k = jr.k + 1]
    ELSE [jr EXCEPT !.pc = "embed_fetch", !.k = 0, !.rows = << >>, !.embeddings = << >>]

\* Variant whose UPDATE sets the vector and the status but not embedded_at.
EmbedWrite_nots(j) ==
    /\ job[j].pc = "embed_write"
    /\ LET jr == job[j]
           bookmark_id == jr.rows[jr.k]
           embedding == jr.embeddings[jr.k]
       IN  IF embedding /= NoVec
           THEN /\ bookmarks' = [bookmarks EXCEPT ![bookmark_id] =
                                    [@ EXCEPT !.embedding = embedding,
                                              !.status = "embedded"]]
                /\ job' = [job EXCEPT ![j] = AfterWrite([jr EXCEPT !.processed = @ + 1])]
           ELSE /\ bookmarks' = [bookmarks EXCEPT ![bookmark_id] =
                                    [@ EXCEPT !.status = "failed"]]
                /\ job' = [job EXCEPT ![j] = AfterWrite([jr EXCEPT !.failed = @ + 1])]
    /\ UNCHANGED <<clusters, runs, faults, kills, lib, snap>>

\* One pass of the update loop whose db.execute succeeds.
EmbedWrite(j) ==
    /\ job[j].pc = "embed_write"
    /\ LET jr == job[j]
           bookmark_id == jr.rows[jr.k]
           embedding == jr.embeddings[jr.k]
       IN  IF embedding /= NoVec
           THEN /\ bookmarks' = [bookmarks EXCEPT ![bookmark_id] =
                                    [@ EXCEPT !.embedding = embedding,
                                              !.status = "embedded",
                                              !.embedded_at = runs]]
                /\ job' = [job EXCEPT ![j] = AfterWrite([jr EXCEPT !.processed = @ + 1])]
           ELSE /\ bookmarks' = [bookmarks EXCEPT ![bookmark_id] =
                                    [@ EXCEPT !.status = "failed"]]
                /\ job' = [job EXCEPT ![j] = AfterWrite([jr EXCEPT !.failed = @ + 1])]
    /\ UNCHANGED <<clusters, runs, faults, kills, lib, snap>>

\* Variant with the try around the whole loop: a raise abandons the batch.
EmbedWriteRaises_abandon(j) ==
    /\ job[j].pc = "embed_write"
    /\ faults + kills < MaxFaults
    /\ faults' = faults + 1
    /\ job' = [job EXCEPT ![j] = [job[j] EXCEPT !.failed = @ + 1, !.pc = "embed_fetch",
                                                !.k = 0, !.rows = << >>,
                                                !.embeddings = << >>]]
    /\ UNCHANGED <<bookmarks, clusters, runs, kills, lib, snap>>

\* One pass of the update loop whose db.execute raises: "except Exception".
EmbedWriteRaises(j) ==
    /\ job[j].pc = "embed_write"
    /\ faults + kills < MaxFaults
    /\ faults' = faults + 1
    /\ job' = [job EXCEPT ![j] = AfterWrite([job[j] EXCEPT !.failed = @ + 1])]
    /\ UNCHANGED <<bookmarks, clusters, runs, kills, lib, snap>>

\* run_clustering_for_all_users: the enumeration of the eligible owners.
ClusterEnum(j) ==
    /\ job[j].pc = "cluster_enum"
    /\ LET user_rows == FetchEligibleUsers(CLUSTERING_MIN_BOOKMARKS)
           jr == job[j]
       IN  job' = [job EXCEPT ![j] =
                      IF user_rows = << >>
                      THEN [jr EXCEPT !.pc = "done", !.stats.users_clustered = 0]
                      ELSE [jr EXCEPT !.pc = "cluster_fetch", !.user_rows = user_rows,
                                      !.u = 1, !.users_processed = 0]]
    /\ snap' = Snap(j, job'[j], bookmarks, clusters)
    /\ UNCHANGED <<bookmarks, clusters, runs, faults, kills, lib>>

\* The enumeration raises: caught by run_batch_job.
ClusterEnumRaises(j) ==
    /\ job[j].pc = "cluster_enum"
    /\ faults + kills < MaxFaults
    /\ faults' = faults + 1
    /\ job' = [job EXCEPT ![j] = JobFailed(job[j], "fetch users failed")]
    /\ snap' = Snap(j, job'[j], bookmarks, clusters)
    /\ UNCHANGED <<bookmarks, clusters, runs, kills, lib>>

(***************************************************************************)
(* cluster_user, called for job[j].user_rows[job[j].u]                     *)
(***************************************************************************)
CurrentUser(jr) == jr.user_rows[jr.u]

\* Variant that leaves an owner alone when the owner already has rows.
ClusterFetch_skip(j) ==
    /\ job[j].pc = "cluster_fetch"
    /\ LET jr == job[j]
           user_id == CurrentUser(jr)
           rows == FetchEmbedded(user_id)
           embeddings == [k \in 1..Len(rows) |-> bookmarks[rows[k]].embedding]
           tags_list == [k \in 1..Len(rows) |-> bookmarks[rows[k]].tags]
           cluster_assignments == cluster_user_bookmarks(embeddings, lib[user_id])
       IN  job' = [job EXCEPT ![j] =
                      IF \/ Len(rows) < CLUSTERING_MIN_BOOKMARKS
                         \/ cluster_assignments = << >>
                         \/ \E r \in clusters : r.user_id = user_id
                      THEN AfterOwner(jr, TRUE)
                      ELSE [jr EXCEPT !.pc = "cluster_update", !.k = 1,
                                      !.bookmark_ids = rows,
                                      !.cluster_assignments = cluster_assignments,
                                      !.cluster_labels =
                                          generate_cluster_labels(cluster_assignments,
                                                                  tags_list, TOP_N),
                                      !.cluster_version = runs]]
    /\ snap' = Snap(j, job'[j], bookmarks, clusters)
    /\ UNCHANGED <<bookmarks, clusters, runs, faults, kills, lib>>

\* Variant without "if len(rows) < CLUSTERING_MIN_BOOKMARKS: return".
ClusterFetch_nomin(j) ==
    /\ job[j].pc = "cluster_fetch"
    /\ LET jr == job[j]
           user_id == CurrentUser(jr)
           rows == FetchEmbedded(user_id)
           embeddings == [k \in 1..Len(rows) |-> bookmarks[rows[k]].embedding]
           tags_list == [k \in 1..Len(rows) |-> bookmarks[rows[k]].tags]
           cluster_assignments == cluster_user_bookmarks(embeddings, lib[user_id])
       IN  job' = [job EXCEPT ![j] =
                      IF cluster_assignments = << >>
                      THEN AfterOwner(jr, TRUE)
                      ELSE [jr EXCEPT !.pc = "cluster_update", !.k = 1,
                                      !.bookmark_ids = rows,
                                      !.cluster_assignments = cluster_assignments,
                                      !.cluster_labels =
                                          generate_cluster_labels(cluster_assignments,
                                                                  tags_list, TOP_N),
                                      !.cluster_version = runs]]
    /\ snap' = Snap(j, job'[j], bookmarks, clusters)
    /\ UNCHANGED <<bookmarks, clusters, runs, faults, kills, lib>>

\* The fetch of the owner's embedded bookmarks, the early return, and the
\* clustering and labelling done in memory before the first write.
ClusterFetch(j) ==
    /\ job[j].pc = "cluster_fetch"
    /\ LET jr == job[j]
           user_id == CurrentUser(jr)
           rows == FetchEmbedded(user_id)
           embeddings == [k \in 1..Len(rows) |-> bookmarks[rows[k]].embedding]
           tags_list == [k \in 1..Len(rows) |-> bookmarks[rows[k]].tags]
           cluster_assignments == cluster_user_bookmarks(embeddings, lib[user_id])
       IN  job' = [job EXCEPT ![j] =
                      IF Len(rows) < CLUSTERING_MIN_BOOKMARKS \/ cluster_assignments = << >>
                      THEN AfterOwner(jr, TRUE)
                      ELSE [jr EXCEPT !.pc = "cluster_update", !.k = 1,
                                      !.bookmark_ids = rows,
                                      !.cluster_assignments = cluster_assignments,
                                      !.cluster_labels =
                                          generate_cluster_labels(cluster_assignments,
                                                                  tags_list, TOP_N),
                                      !.cluster_version = runs]]
    /\ snap' = Snap(j, job'[j], bookmarks, clusters)
    /\ UNCHANGED <<bookmarks, clusters, runs, faults, kills, lib>>

\* "UPDATE bookmarks SET cluster_id = $1, cluster_label = $2 WHERE id = $3"
ClusterUpdate(j) ==
    /\ job[j].pc = "cluster_update"
    /\ LET jr == job[j]
           bookmark_id == jr.bookmark_ids[jr.k]
           cluster_id == jr.cluster_assignments[jr.k]
           label == Get(jr.cluster_labels, cluster_id)
       IN  /\ bookmarks' = [bookmarks EXCEPT ![bookmark_id] =
                               [@ EXCEPT !.cluster_id = IF cluster_id >= 0
                                                        THEN cluster_id ELSE None,
                                         !.cluster_label = label]]
           /\ job' = [job EXCEPT ![j] =
                         IF jr.k < Len(jr.bookmark_ids)
                         THEN [jr EXCEPT !.k = jr.k + 1]
                         ELSE [jr EXCEPT !.pc = "cluster_delete", !.k = 0]]
    /\ UNCHANGED <<clusters, runs, faults, kills, lib, snap>>

\* Variant that forgets the DELETE of the owner's old rows.
ClusterDelete_keep(j) ==
    /\ job[j].pc = "cluster_delete"
    /\ LET jr == job[j]
           cluster_sizes == CountClusterSizes(jr.cluster_assignments)
       IN  /\ clusters' = clusters
           /\ job' = [job EXCEPT ![j] =
                         IF cluster_sizes = << >>
                         THEN AfterOwner(jr, TRUE)
                         ELSE [jr EXCEPT !.pc = "cluster_insert", !.k = 1,
                                         !.cluster_sizes = cluster_sizes]]
    /\ snap' = Snap(j, job'[j], bookmarks, clusters')
    /\ UNCHANGED <<bookmarks, runs, faults, kills, lib>>

\* "DELETE FROM clusters WHERE user_id = $1", then the count of the sizes.
ClusterDelete(j) ==
    /\ job[j].pc = "cluster_delete"
    /\ LET jr == job[j]
           cluster_sizes == CountClusterSizes(jr.cluster_assignments)
       IN  /\ clusters' = {r \in clusters : r.user_id /= CurrentUser(jr)}
           /\ job' = [job EXCEPT ![j] =
                         IF cluster_sizes = << >>
                         THEN AfterOwner(jr, TRUE)
                         ELSE [jr EXCEPT !.pc = "cluster_insert", !.k = 1,
                                         !.cluster_sizes = cluster_sizes]]
    /\ snap' = Snap(j, job'[j], bookmarks, clusters')
    /\ UNCHANGED <<bookmarks, runs, faults, kills, lib>>

\* Variant that looks the label up by the position in the loop, not by the id.
ClusterInsert_index(j) ==
    /\ job[j].pc = "cluster_insert"
    /\ LET jr == job[j]
           cluster_id == jr.cluster_sizes[jr.k][1]
           size == jr.cluster_sizes[jr.k][2]
       IN  /\ clusters' = clusters \cup
                   {[user_id |-> CurrentUser(jr), cluster_id |-> cluster_id,
                     label |-> Get(jr.cluster_labels, jr.k), size |-> size,
                     cluster_version |-> jr.cluster_version]}
           /\ job' = [job EXCEPT ![j] =
                         IF jr.k < Len(jr.cluster_sizes)
                         THEN [jr EXCEPT !.k = jr.k + 1]
                         ELSE AfterOwner(jr, TRUE)]
    /\ snap' = Snap(j, job'[j], bookmarks, clusters')
    /\ UNCHANGED <<bookmarks, runs, faults, kills, lib>>

\* "INSERT INTO clusters (user_id, cluster_id, label, size, cluster_version)"
ClusterInsert(j) ==
    /\ job[j].pc = "cluster_insert"
    /\ LET jr == job[j]
           cluster_id == jr.cluster_sizes[jr.k][1]
           size == jr.cluster_sizes[jr.k][2]
       IN  /\ clusters' = clusters \cup
                   {[user_id |-> CurrentUser(jr), cluster_id |-> cluster_id,
                     label |-> Get(jr.cluster_labels, cluster_id), size |-> size,
                     cluster_version |-> jr.cluster_version]}
           /\ job' = [job EXCEPT ![j] =
                         IF jr.k < Len(jr.cluster_sizes)
                         THEN [jr EXCEPT !.k = jr.k + 1]
                         ELSE AfterOwner(jr, TRUE)]
    /\ snap' = Snap(j, job'[j], bookmarks, clusters')
    /\ UNCHANGED <<bookmarks, runs, faults, kills, lib>>

\* Variant without the guard of the owner loop: the raise ends the whole job.
ClusterUserRaises_unguarded(j) ==
    /\ job[j].pc \in {"cluster_fetch", "cluster_update", "cluster_delete", "cluster_insert"}
    /\ faults + kills < MaxFaults
    /\ faults' = faults + 1
    /\ job' = [job EXCEPT ![j] = JobFailed(job[j], "cluster_user failed")]
    /\ snap' = Snap(j, job'[j], bookmarks, clusters)
    /\ UNCHANGED <<bookmarks, clusters, runs, kills, lib>>

\* Any await of cluster_user raises: "except Exception" in the owner loop.
ClusterUserRaises(j) ==
    /\ job[j].pc \in {"cluster_fetch", "cluster_update", "cluster_delete", "cluster_insert"}
    /\ faults + kills < MaxFaults
    /\ faults' = faults + 1
    /\ job' = [job EXCEPT ![j] = AfterOwner(job[j], FALSE)]
    /\ snap' = Snap(j, job'[j], bookmarks, clusters)
    /\ UNCHANGED <<bookmarks, clusters, runs, kills, lib>>

\* The process is terminated while the invocation runs.
Kill(j) ==
    /\ Running(j)
    /\ faults + kills < MaxFaults
    /\ kills' = kills + 1
    /\ job' = [job EXCEPT ![j].pc = "killed", ![j].killed_at = job[j].pc]
    /\ UNCHANGED <<bookmarks, clusters, runs, faults, lib, snap>>

(***************************************************************************)
(* Specification of the batch job                                          *)
(***************************************************************************)
NoSnap == [items |-> << >>, rows |-> {}, nrows |-> 0]

\* The library behaviours of a run: owner o gets the o-th mode after m.
ModeSeq == <<"hdbscan", "import_error", "all_noise", "both_fail", "fit_error">>
LibChoices == {[o \in Owners |-> ModeSeq[((m + o) % Len(ModeSeq)) + 1]] : m \in 1..Len(ModeSeq)}

CsIdle == [pc |-> "idle", embeddings_list |-> << >>, mode |-> "hdbscan",
           ran |-> {}, labels |-> << >>]

DdIdle == [pc |-> "idle", bookmark_rows |-> << >>, items |-> << >>,
           parent |-> << >>, result |-> << >>]

\* The tables of the migration before any row exists, no checkpoint file,
\* and run_migration not called.
\* created: the local of build_dup_groups_for_user; n_dg: its returned value
\* in run_migration. (for the claims) before: dup_groups and bookmark_dup_map
\* as the call found them; built: for each owner, the fingerprinted bookmarks
\* when a writing call last returned for that owner; unchanged: the call
\* found the owner's fingerprinted bookmarks as built has them.
MgIdle ==
    [bookmarks |-> << >>, tags |-> << >>, bookmark_tags |-> << >>,
     dup_groups |-> << >>, bookmark_dup_map |-> << >>,
     topics |-> << >>, dup_group_topics |-> << >>, checkpoint |-> None,
     pc |-> "idle", dry_run |-> FALSE, resume |-> FALSE, only_user_id |-> None,
     last_completed_user_id |-> None, users |-> << >>, u |-> 0,
     rows |-> << >>, i |-> 0, k |-> 0, groups |-> << >>, g |-> 0,
     dup_group_id |-> None, root_id |-> None, dg_rows |-> << >>,
     visited |-> << >>, skipped |-> {}, runs |-> 0, faults |-> 0, dataset |-> 1,
     resumed |-> FALSE, base |-> 0, killed_at |-> "",
     created |-> 0, n_dg |-> None, before |-> << >>, built |-> {},
     unchanged |-> FALSE]

OthersIdle ==
    /\ cs = CsIdle
    /\ dd = DdIdle
    /\ mg = MgIdle

Init ==
    /\ bookmarks = [i \in Items |-> NewBookmark(i)]
    /\ clusters = {}
    /\ job = [j \in Jobs |-> IdleJob]
    /\ runs = 0
    /\ faults = 0
    /\ kills = 0
    /\ lib \in LibChoices
    /\ snap = [j \in Jobs |-> NoSnap]
    /\ OthersIdle

Next ==
    \/ \E j \in Jobs : Trigger(j) /\ UNCHANGED <<cs, dd, mg>>
    \/ \E j \in Jobs : EmbedFetch(j) /\ UNCHANGED <<cs, dd, mg>>
    \/ \E j \in Jobs : EmbedFetchRaises(j) /\ UNCHANGED <<cs, dd, mg>>
    \/ \E j \in Jobs : EmbedWrite(j) /\ UNCHANGED <<cs, dd, mg>>
    \/ \E j \in Jobs : EmbedWriteRaises(j) /\ UNCHANGED <<cs, dd, mg>>
    \/ \E j \in Jobs : ClusterEnum(j) /\ UNCHANGED <<cs, dd, mg>>
    \/ \E j \in Jobs : ClusterEnumRaises(j) /\ UNCHANGED <<cs, dd, mg>>
    \/ \E j \in Jobs : ClusterFetch(j) /\ UNCHANGED <<cs, dd, mg>>
    \/ \E j \in Jobs : ClusterUpdate(j) /\ UNCHANGED <<cs, dd, mg>>
    \/ \E j \in Jobs : ClusterDelete(j) /\ UNCHANGED <<cs, dd, mg>>
    \/ \E j \in Jobs : ClusterInsert(j) /\ UNCHANGED <<cs, dd, mg>>
    \/ \E j \in Jobs : ClusterUserRaises(j) /\ UNCHANGED <<cs, dd, mg>>
    \/ \E j \in Jobs : Kill(j) /\ UNCHANGED <<cs, dd, mg>>

Spec == Init /\ [][Next]_vars

(***************************************************************************)
(* Reading the store                                                       *)
(***************************************************************************)
RowsOfIn(cl, o) == {r \in cl : r.user_id = o}
RowsOf(o) == RowsOfIn(clusters, o)
MembersIn(bm, o, c) == {i \in Items : bm[i].user_id = o /\ bm[i].cluster_id = c}
NonNoiseIds(a) == {c \in Range(a) : c >= 0}
StatsFields == {"embeddings_processed", "embeddings_failed", "users_clustered", "errors"}
ClusterPcs == {"cluster_fetch", "cluster_update", "cluster_delete", "cluster_insert"}

RECURSIVE SumSizes(_)
SumSizes(rs) ==
    IF rs = {} THEN 0
    ELSE LET r == CHOOSE x \in rs : TRUE IN r.size + SumSizes(rs \ {r})

\* The step is one of invocation j itself (not its termination from outside).
StepOf(j) == job'[j] /= job[j] /\ job'[j].pc /= "killed"

\* The step in which cluster_user returns normally after a replacement.
CompletesReplacement(j) ==
    /\ job[j].pc \in {"cluster_delete", "cluster_insert"}
    /\ job'[j].users_processed = job[j].users_processed + 1

\* What an uninterrupted cluster_user leaves for owner o, from the store.
ExpectedAssignment(o) ==
    LET rows == FetchEmbedded(o)
    IN  cluster_user_bookmarks([k \in 1..Len(rows) |-> bookmarks[rows[k]].embedding], lib[o])

ExpectedLabels(o) ==
    LET rows == FetchEmbedded(o)
    IN  generate_cluster_labels(ExpectedAssignment(o),
                                [k \in 1..Len(rows) |-> bookmarks[rows[k]].tags], TOP_N)

ExpectedRows(o, version) ==
    {[user_id |-> o, cluster_id |-> c, label |-> ExpectedLabels(o)[c],
      size |-> Count(ExpectedAssignment(o), c), cluster_version |-> version] :
        c \in NonNoiseIds(ExpectedAssignment(o))}

(***************************************************************************)
(* C1  run_batch_job never lets an exception out: when the fetch of the    *)
(* embedding phase or the owner enumeration of the clustering phase        *)
(* raises, the invocation ends by returning its stats record, with the     *)
(* four fields, and the message of the exception appended to errors.       *)
(***************************************************************************)
C1_NeverPropagates ==
    [][\A j \in Jobs :
          /\ job'[j].pc /= "raised"
          /\ (job[j].pc /= "done" /\ job'[j].pc = "done"
                 => DOMAIN job'[j].stats = StatsFields)
          /\ (/\ job[j].pc \in {"embed_fetch", "cluster_enum"}
              /\ faults' = faults + 1
              /\ job'[j].pc /= "embed_write"
              => /\ job'[j].pc = "done"
                 /\ job'[j].stats.errors =
                       Append(job[j].stats.errors,
                              IF job[j].pc = "embed_fetch" THEN "fetch pending failed"
                                                          ELSE "fetch users failed"))]_vars

C1_Witness ==
    \E j \in Jobs : /\ job[j].pc = "done"
                     /\ job[j].stats.errors = <<"fetch users failed">>
                     /\ \E i \in Items : bookmarks[i].status = "embedded"

(***************************************************************************)
(* C2  Each pass of the update loop of process_pending_embeddings handles  *)
(* one item: with a vector the item becomes embedded (vector and           *)
(* timestamp stored), without one it becomes failed, no other item is      *)
(* touched, and whether or not the pass raised the loop goes on to the     *)
(* next item of the same batch.                                            *)
(***************************************************************************)
C2_ItemsIndependent ==
    [][\A j \in Jobs :
          job[j].pc = "embed_write" /\ StepOf(j) =>
            LET jr == job[j]
                i == jr.rows[jr.k]
                e == jr.embeddings[jr.k]
            IN  /\ Len(jr.embeddings) = Len(jr.rows)
                /\ (faults' = faults /\ e /= NoVec
                       => /\ bookmarks'[i].status = "embedded"
                          /\ bookmarks'[i].embedding = e
                          /\ bookmarks'[i].embedded_at /= None)
                /\ (faults' = faults /\ e = NoVec => bookmarks'[i].status = "failed")
                /\ \A x \in Items \ {i} : bookmarks'[x] = bookmarks[x]
                /\ IF jr.k < Len(jr.rows)
                   THEN /\ job'[j].pc = "embed_write"
                        /\ job'[j].k = jr.k + 1
                        /\ job'[j].rows = jr.rows
                        /\ job'[j].embeddings = jr.embeddings
                   ELSE job'[j].pc = "embed_fetch"]_vars

\* The write of one item raised and the next item of the batch was written.
C2_Witness ==
    \E j \in Jobs :
        /\ job[j].pc = "embed_write"
        /\ job[j].k >= 3
        /\ bookmarks[job[j].rows[job[j].k - 2]].status = "pending_embedding"
        /\ bookmarks[job[j].rows[job[j].k - 1]].status = "embedded"

(***************************************************************************)
(* C3  An exception inside cluster_user is caught per owner: the failing   *)
(* owner is not counted, the loop goes on with the next owner (or returns  *)
(* without a job error), a raise of the owner's fetch changes no row and   *)
(* no item, and when the job has returned every owner that did not fail    *)
(* has the fresh rows of this run.                                         *)
(***************************************************************************)
FreshRows(o, j) == RowsOf(o) = ExpectedRows(o, j)

C3_OwnerIsolated ==
    /\ [][\A j \in Jobs :
             job[j].pc \in ClusterPcs /\ StepOf(j) /\ faults' = faults + 1 =>
               /\ job'[j].users_processed = job[j].users_processed
               /\ IF job[j].u < Len(job[j].user_rows)
                  THEN /\ job'[j].pc = "cluster_fetch"
                       /\ job'[j].u = job[j].u + 1
                       /\ job'[j].user_rows = job[j].user_rows
                  ELSE /\ job'[j].pc = "done"
                       /\ job'[j].stats.errors = job[j].stats.errors
               /\ (job[j].pc = "cluster_fetch"
                      => bookmarks' = bookmarks /\ clusters' = clusters)]_vars
    /\ [](\A j \in Jobs :
             job[j].pc = "done" /\ runs = j /\ job[j].user_rows /= << >> =>
               Cardinality({o \in Range(job[j].user_rows) : ~ FreshRows(o, j)})
                 <= Len(job[j].user_rows) - job[j].stats.users_clustered)

\* Two eligible owners, the first failed before any write and has no row
\* although its assignment has clusters, the second has the rows of this run.
C3_Witness ==
    \E j \in Jobs :
        /\ job[j].pc = "done" /\ runs = j /\ faults = 1
        /\ Len(job[j].user_rows) >= 2
        /\ job[j].stats.users_clustered = Len(job[j].user_rows) - 1
        /\ job[j].stats.errors = << >>
        /\ LET o1 == job[j].user_rows[1]
               o2 == job[j].user_rows[2]
           IN  /\ RowsOf(o1) = {} /\ ExpectedRows(o1, j) /= {}
               /\ \A i \in Items : bookmarks[i].user_id = o1
                                       => bookmarks[i].cluster_id = None
               /\ FreshRows(o2, j) /\ RowsOf(o2) /= {}

(***************************************************************************)
(* C4  When cluster_user returns normally after a replacement, the owner   *)
(* has exactly one row per distinct non-noise id of this run's assignment, *)
(* each row's size is the number of the owner's items whose stored         *)
(* cluster_id is the row's id, and each such item carries the row's label. *)
(***************************************************************************)
C4_RowsMatchItems ==
    [][\A j \in Jobs :
          CompletesReplacement(j) =>
            LET o == CurrentUser(job[j])
                ids == NonNoiseIds(job[j].cluster_assignments)
                rows == RowsOfIn(clusters', o)
            IN  /\ {r.cluster_id : r \in rows} = ids
                /\ Cardinality(rows) = Cardinality(ids)
                /\ \A r \in rows :
                      /\ r.size = Cardinality(MembersIn(bookmarks', o, r.cluster_id))
                      /\ \A i \in MembersIn(bookmarks', o, r.cluster_id) :
                            bookmarks'[i].cluster_label = r.label]_vars

\* A second replacement of an owner has completed, leaving two rows.
C4_Witness ==
    \E o \in Owners :
        /\ job[2].pc = "done"
        /\ job[2].stats.users_clustered = Len(job[2].user_rows)
        /\ o \in Range(job[2].user_rows)
        /\ Cardinality(RowsOf(o)) >= 2
        /\ \A r \in RowsOf(o) : r.cluster_version = 2

(***************************************************************************)
(* C5  Noise is never materialized: no row has cluster id -1, an item      *)
(* assigned -1 gets cluster_id and cluster_label null, and the sizes of    *)
(* the rows a replacement leaves add up to the number of non-noise items.  *)
(***************************************************************************)
C5_NoiseNotMaterialized ==
    /\ [](/\ \A r \in clusters : r.cluster_id >= 0
          /\ \A i \in Items : bookmarks[i].cluster_id = None
                                  \/ bookmarks[i].cluster_id >= 0)
    /\ [][\A j \in Jobs :
             /\ (job[j].pc = "cluster_update" /\ StepOf(j) /\ faults' = faults
                    /\ job[j].cluster_assignments[job[j].k] = -1
                  => LET i == job[j].bookmark_ids[job[j].k]
                     IN  /\ bookmarks'[i].cluster_id = None
                         /\ bookmarks'[i].cluster_label = NoLabel)
             /\ (CompletesReplacement(j)
                  => SumSizes(RowsOfIn(clusters', CurrentUser(job[j])))
                       = Cardinality({k \in 1..Len(job[j].cluster_assignments) :
                                         job[j].cluster_assignments[k] >= 0}))]_vars

\* An owner with rows and with an embedded item that was assigned noise.
C5_Witness ==
    \E j \in Jobs, o \in Owners, i \in Items :
        /\ job[j].pc = "done" /\ runs = j
        /\ FreshRows(o, j) /\ RowsOf(o) /= {}
        /\ bookmarks[i].user_id = o /\ bookmarks[i].status = "embedded"
        /\ i \in Range(FetchEmbedded(o))
        /\ \E k \in 1..Len(FetchEmbedded(o)) :
              FetchEmbedded(o)[k] = i /\ ExpectedAssignment(o)[k] = -1
        /\ bookmarks[i].cluster_id = None /\ bookmarks[i].cluster_label = NoLabel
        /\ SumSizes(RowsOf(o)) < Len(FetchEmbedded(o))

(***************************************************************************)
(* C6  When an invocation was terminated inside an owner's replacement     *)
(* (during the item updates, before the delete, or during the inserts),    *)
(* a later invocation in which cluster_user returned normally for the      *)
(* owner leaves the owner's rows and the cluster fields of the owner's     *)
(* items as a replacement that was never interrupted leaves them.          *)
(***************************************************************************)
KilledInReplacement(h, o) ==
    /\ job[h].pc = "killed"
    /\ job[h].killed_at \in {"cluster_update", "cluster_delete", "cluster_insert"}
    /\ CurrentUser(job[h]) = o

CompletedFor(j, o) ==
    /\ job[j].pc = "done" /\ runs = j
    /\ job[j].stats.errors = << >>
    /\ job[j].stats.users_clustered = Len(job[j].user_rows)
    /\ o \in Range(job[j].user_rows)

ItemsAsExpected(o) ==
    LET rows == FetchEmbedded(o)
        a == ExpectedAssignment(o)
        l == ExpectedLabels(o)
    IN  /\ \A k \in 1..Len(rows) :
              /\ bookmarks[rows[k]].cluster_id = (IF a[k] >= 0 THEN a[k] ELSE None)
              /\ bookmarks[rows[k]].cluster_label = Get(l, a[k])
        /\ \A i \in Items :
              bookmarks[i].user_id = o /\ i \notin Range(rows)
                => bookmarks[i].cluster_id = None /\ bookmarks[i].cluster_label = NoLabel

C6_SelfHealing ==
    \A h \in Jobs, j \in Jobs, o \in Owners :
        h < j /\ KilledInReplacement(h, o) /\ CompletedFor(j, o)
          => FreshRows(o, j) /\ ItemsAsExpected(o)

\* The first invocation was terminated after it had inserted some but not all
\* rows of an owner, and the second has replaced the owner's rows.
C6_Witness ==
    \E o \in Owners :
        /\ KilledInReplacement(1, o)
        /\ job[1].killed_at = "cluster_insert" /\ job[1].k >= 2
        /\ CompletedFor(2, o)
        /\ Cardinality(RowsOf(o)) >= 2
        /\ \A r \in RowsOf(o) : r.cluster_version = 2

(***************************************************************************)
(* C7  as stated: in a replacement that is not interrupted the owner's     *)
(* rows never mix two runs, and an item of the owner carries a cluster_id  *)
(* without a row of that id and label only between the delete of the old   *)
(* rows and the end of the inserts.                                        *)
(***************************************************************************)
SameRun(o) == \A r1 \in RowsOf(o), r2 \in RowsOf(o) : r1.cluster_version = r2.cluster_version

Consistent(o) ==
    \A i \in Items :
        bookmarks[i].user_id = o /\ bookmarks[i].cluster_id /= None
          => \E r \in RowsOf(o) : /\ r.cluster_id = bookmarks[i].cluster_id
                                   /\ r.label = bookmarks[i].cluster_label

Replacing(o, pcs) == \E j \in Jobs : job[j].pc \in pcs /\ CurrentUser(job[j]) = o

VecVals == {0, 1, 2, 3, 6}

CsReturn(labels, tier) ==
    [cs EXCEPT !.pc = "returned", !.labels = labels, !.ran = cs.ran \cup {tier}]

\* Variant that also moves on when the primary found no cluster at all.
CsPrimary_quality ==
    /\ cs.pc = "call"
    /\ IF cs.embeddings_list = << >>
       THEN cs' = [cs EXCEPT !.pc = "returned", !.labels = << >>]
       ELSE LET primary == _cluster_with_hdbscan(cs.embeddings_list, cs.mode)
            IN  IF ~ primary.raised /\ \E k \in 1..Len(primary.labels) : primary.labels[k] >= 0
                THEN cs' = CsReturn(primary.labels, "primary")
                ELSE cs' = [cs EXCEPT !.pc = "fallback", !.ran = cs.ran \cup {"primary"}]
    /\ UNCHANGED <<batchVars, dd, mg>>

\* "if not embeddings_list: return []", then the try around the primary.
CsPrimary ==
    /\ cs.pc = "call"
    /\ IF cs.embeddings_list = << >>
       THEN cs' = [cs EXCEPT !.pc = "returned", !.labels = << >>]
       ELSE LET primary == _cluster_with_hdbscan(cs.embeddings_list, cs.mode)
            IN  IF ~ primary.raised
                THEN cs' = CsReturn(primary.labels, "primary")
                ELSE cs' = [cs EXCEPT !.pc = "fallback", !.ran = cs.ran \cup {"primary"}]
    /\ UNCHANGED <<batchVars, dd, mg>>

\* "except Exception as e:", the try around the fallback.
CsFallback ==
    /\ cs.pc = "fallback"
    /\ LET fallback == _cluster_with_cosine_threshold(cs.embeddings_list, cs.mode)
       IN  IF ~ fallback.raised
           THEN cs' = CsReturn(fallback.labels, "fallback")
           ELSE cs' = [cs EXCEPT !.pc = "all_zero", !.ran = cs.ran \cup {"fallback"}]
    /\ UNCHANGED <<batchVars, dd, mg>>

\* "except Exception as e2: return [0] * len(embeddings_list)"
CsAllZero ==
    /\ cs.pc = "all_zero"
    /\ cs' = CsReturn(Zeros(Len(cs.embeddings_list)), "all_zero")
    /\ UNCHANGED <<batchVars, dd, mg>>

BatchIdle ==
    /\ bookmarks = [i \in Items |-> NewBookmark(i)]
    /\ clusters = {}
    /\ job = [j \in Jobs |-> IdleJob]
    /\ runs = 0
    /\ faults = 0
    /\ kills = 0
    /\ lib = [o \in Owners |-> "hdbscan"]
    /\ snap = [j \in Jobs |-> NoSnap]

InitCluster ==
    /\ BatchIdle
    /\ \E n \in 0..MaxVecs :
          \E e \in [1..n -> VecVals], m \in Modes :
             cs = [CsIdle EXCEPT !.pc = "call", !.embeddings_list = e, !.mode = m]
    /\ dd = DdIdle
    /\ mg = MgIdle

NextCluster ==
    \/ CsPrimary
    \/ CsFallback
    \/ CsAllZero

SpecCluster == InitCluster /\ [][NextCluster]_vars

(***************************************************************************)
(* C9  The tiers run in order and the next one only after the previous one *)
(* raised: the fallback has run only if the primary raised, all zeros are  *)
(* returned only if the fallback raised too, the labels of a primary that  *)
(* returned (all noise included) are what the caller gets, and for a       *)
(* non-empty list of n vectors the call returns exactly n ids and never    *)
(* ends in an exception.                                                   *)
(***************************************************************************)
LibraryWorks(mode) == mode \in {"hdbscan", "all_noise"}

C9_TiersInOrder ==
    LET n == Len(cs.embeddings_list)
        primary == _cluster_with_hdbscan(cs.embeddings_list, cs.mode)
        fallback == _cluster_with_cosine_threshold(cs.embeddings_list, cs.mode)
    IN  /\ cs.pc \in {"idle", "call", "fallback", "all_zero", "returned"}
        /\ ("fallback" \in cs.ran \/ cs.pc = "fallback"
               => "primary" \in cs.ran /\ primary.raised /\ ~ LibraryWorks(cs.mode))
        /\ ("all_zero" \in cs.ran \/ cs.pc = "all_zero"
               => "fallback" \in cs.ran /\ fallback.raised /\ cs.mode = "both_fail")
        /\ (cs.pc = "returned" /\ n > 0
               => /\ Len(cs.labels) = n
                  /\ cs.labels = _cluster_sync(cs.embeddings_list, cs.mode)
                  /\ (LibraryWorks(cs.mode) => cs.ran = {"primary"})
                  /\ (cs.mode = "all_noise" /\ n >= 5
                         => \A k \in 1..n : cs.labels[k] = -1)
                  /\ (~ primary.raised => cs.labels = primary.labels)
                  /\ (primary.raised /\ ~ fallback.raised
                         => cs.labels = fallback.labels /\ cs.ran = {"primary", "fallback"})
                  /\ (primary.raised /\ fallback.raised
                         => cs.labels = Zeros(n)
                            /\ cs.ran = {"primary", "fallback", "all_zero"}))

\* A primary that returned nothing but noise for five vectors was kept.
C9_Witness ==
    /\ cs.pc = "returned" /\ Len(cs.embeddings_list) = 5
    /\ cs.mode = "all_noise" /\ cs.ran = {"primary"}
    /\ \A k \in 1..5 : cs.labels[k] = -1

(***************************************************************************)
(* services/dedup.py                                                       *)
(***************************************************************************)
RECURSIVE Pow2(_)
Pow2(n) == IF n = 0 THEN 1 ELSE 2 * Pow2(n - 1)

\* Variant that drops the sign instead of masking.
_to_uint64_abs(v) == IF v < 0 THEN 0 - v ELSE v

\* int(v) & ((1 << 64) - 1)
_to_uint64(v) == v % Pow2(FpBits)

RECURSIVE Xor(_, _)
Xor(a, b) == IF a = 0 /\ b = 0 THEN 0
             ELSE ((a + b) % 2) + 2 * Xor(a \div 2, b \div 2)

RECURSIVE CountBits(_)
\* "while x: n += x & 1; x >>= 1"
CountBits(x) == IF x = 0 THEN 0 ELSE (x % 2) + CountBits(x \div 2)

hamming_distance(a, b) == CountBits(Xor(_to_uint64(a), _to_uint64(b)))

\* The (simhash, id, created_at) tuples of the rows that have both a simhash
\* and an id, in the order of the rows.
RECURSIVE CollectItems(_, _)
CollectItems(bookmark_rows, k) ==
    IF k > Len(bookmark_rows) THEN << >>
    ELSE LET row == bookmark_rows[k]
             rest == CollectItems(bookmark_rows, k + 1)
         IN  IF row.simhash64 = None \/ row.id = None THEN rest
             ELSE <<[sh |-> _to_uint64(row.simhash64), id |-> row.id,
                     created |-> row.created_at]>> \o rest

\* Variant whose key puts the oldest first.
SortKey_oldest(x) == IF x.created = None THEN <<1, 0>> ELSE <<0, x.created>>

\* key=lambda x: (x[2] is None, -(x[2].timestamp() if x[2] else 0))
SortKey(x) == IF x.created = None THEN <<1, 0>> ELSE <<0, 0 - x.created>>
KeyLessEq(a, b) == a[1] < b[1] \/ (a[1] = b[1] /\ a[2] <= b[2])

\* x placed behind every element whose key is not greater (the sort is stable).
RECURSIVE InsertSorted(_, _)
InsertSorted(sorted, x) ==
    IF sorted = << >> THEN <<x>>
    ELSE IF KeyLessEq(SortKey(Head(sorted)), SortKey(x))
         THEN <<Head(sorted)>> \o InsertSorted(Tail(sorted), x)
         ELSE <<x>> \o sorted

RECURSIVE SortItems(_)
SortItems(items) ==
    IF items = << >> THEN << >>
    ELSE InsertSorted(SortItems(SubSeq(items, 1, Len(items) - 1)), items[Len(items)])

RECURSIVE Root(_, _)
Root(parent, s) == IF parent[s] = s THEN s ELSE Root(parent, parent[s])

RECURSIVE Compress(_, _, _)
\* "parent[s] = find(parent[s])" on the way back from the root.
Compress(parent, s, root) ==
    IF parent[s] = s THEN parent
    ELSE Compress([parent EXCEPT ![s] = root], parent[s], root)

\* find(s): the canonical simhash of s, and the parent dict it leaves.
find(parent, s) ==
    LET known == IF s \in DOMAIN parent THEN parent ELSE (s :> s) @@ parent
        root == Root(known, s)
    IN  [root |-> root, parent |-> Compress(known, s, root)]

\* Variant that links the two simhashes themselves, not their roots.
union_direct(parent, s1, s2) ==
    LET f1 == find(parent, s1)
        f2 == find(f1.parent, s2)
    IN  IF f1.root /= f2.root THEN [f2.parent EXCEPT ![s1] = s2] ELSE f2.parent

\* union(s1, s2): "p1, p2 = find(s1), find(s2); if p1 != p2: parent[p1] = p2"
union(parent, s1, s2) ==
    LET f1 == find(parent, s1)
        f2 == find(f1.parent, s2)
    IN  IF f1.root /= f2.root THEN [f2.parent EXCEPT ![f1.root] = f2.root] ELSE f2.parent

\* The two nested loops over simhashes, from the pair (i, j) on.
RECURSIVE UnionAll(_, _, _, _)
UnionAll(parent, simhashes, i, j) ==
    IF i > Len(simhashes) THEN parent
    ELSE IF j > Len(simhashes) THEN UnionAll(parent, simhashes, i + 1, i + 2)
    ELSE UnionAll(IF hamming_distance(simhashes[i], simhashes[j])
                        <= SIMHASH_HAMMING_THRESHOLD
                  THEN union(parent, simhashes[i], simhashes[j])
                  ELSE parent,
                  simhashes, i, j + 1)

\* list({...}): the distinct simhashes in one of the orders a set can have.
Orders(S) == {o \in [1..Cardinality(S) -> S] : \A x \in S : \E k \in DOMAIN o : o[k] = x}

\* The canonical simhash of each item, with the find of the bucket loop.
RECURSIVE Canonicals(_, _, _)
Canonicals(parent, items, k) ==
    IF k > Len(items) THEN << >>
    ELSE LET f == find(parent, items[k].sh)
         IN  <<f.root>> \o Canonicals(f.parent, items, k + 1)

RECURSIVE IdsOf(_, _, _, _)
\* [x[1] for x in group] of the bucket of one canonical simhash.
IdsOf(items, canonicals, bucket, k) ==
    IF k > Len(items) THEN << >>
    ELSE IF canonicals[k] = bucket
         THEN <<items[k].id>> \o IdsOf(items, canonicals, bucket, k + 1)
         ELSE IdsOf(items, canonicals, bucket, k + 1)

RECURSIVE ResultList(_, _, _, _)
\* "for simhash_bucket, group in buckets.items()", from bucket b on.
ResultList(items, canonicals, buckets, b) ==
    IF b > Len(buckets) THEN << >>
    ELSE LET ids == IdsOf(items, canonicals, buckets[b], 1)
         IN  <<[simhash_bucket |-> buckets[b], ids |-> ids,
                representative_id |-> ids[1]]>>
             \o ResultList(items, canonicals, buckets, b + 1)

\* The (simhash_bucket, ids, representative_id) list, in the order of the dict.
BuildResult(parent, items) ==
    LET canonicals == Canonicals(parent, items, 1)
    IN  ResultList(items, canonicals, FirstSeen(canonicals), 1)

\* Stored simhashes (signed, as the store returns them) and timestamps.
SimhashVals == {0, 3, 15, -1}
TimeVals == {None, 1, 2}
RowVals == {[simhash64 |-> s, created_at |-> t] :
               s \in SimhashVals \cup {None}, t \in TimeVals}

\* The rows of one call: row k has id k.
MakeRows(n, f) ==
    [k \in 1..n |-> [id |-> k, simhash64 |-> f[k].simhash64,
                     created_at |-> f[k].created_at]]

\* "if not bookmark_rows: return []", the items, "if not items: return []",
\* and the sort.
DdCollect ==
    /\ dd.pc = "call"
    /\ LET items == CollectItems(dd.bookmark_rows, 1)
       IN  dd' = IF dd.bookmark_rows = << >> \/ items = << >>
                 THEN [dd EXCEPT !.pc = "done", !.result = << >>]
                 ELSE [dd EXCEPT !.pc = "union", !.items = SortItems(items)]
    /\ UNCHANGED <<batchVars, cs, mg>>

\* The union of every pair of distinct simhashes within the threshold.
DdUnion ==
    /\ dd.pc = "union"
    /\ \E simhashes \in Orders({dd.items[k].sh : k \in 1..Len(dd.items)}) :
          dd' = [dd EXCEPT !.pc = "buckets",
                           !.parent = UnionAll(<< >>, simhashes, 1, 2)]
    /\ UNCHANGED <<batchVars, cs, mg>>

\* The buckets by canonical simhash and the result list.
DdBuckets ==
    /\ dd.pc = "buckets"
    /\ dd' = [dd EXCEPT !.pc = "done", !.result = BuildResult(dd.parent, dd.items)]
    /\ UNCHANGED <<batchVars, cs, mg>>

InitDedup ==
    /\ BatchIdle
    /\ cs = CsIdle
    /\ mg = MgIdle
    /\ \E n \in 0..MaxRows :
          \E f \in [1..n -> RowVals] :
             dd = [DdIdle EXCEPT !.pc = "call", !.bookmark_rows = MakeRows(n, f)]

NextDedup ==
    \/ DdCollect
    \/ DdUnion
    \/ DdBuckets

SpecDedup == InitDedup /\ [][NextDedup]_vars

(***************************************************************************)
(* C10  The groups group_by_simhash returns are the connected components   *)
(* of the graph that joins two distinct fingerprints of the input at       *)
(* Hamming distance <= 3: every row with a fingerprint is in exactly one   *)
(* group, once; a row without a fingerprint is in none; two rows are in    *)
(* the same group iff a chain of such steps leads from the fingerprint of  *)
(* one to the fingerprint of the other; an empty input gives an empty      *)
(* result.                                                                 *)
(***************************************************************************)
Fingerprinted == {k \in 1..Len(dd.bookmark_rows) : dd.bookmark_rows[k].simhash64 /= None}
FpOf(k) == _to_uint64(dd.bookmark_rows[k].simhash64)
Near(a, b) == a /= b /\ hamming_distance(a, b) <= SIMHASH_HAMMING_THRESHOLD

Fingerprints == {FpOf(k) : k \in Fingerprinted}
NearPairs(F) == {p : p \in {q \in F \X F : q[1] = q[2] \/ Near(q[1], q[2])}}

\* R and the pairs that two steps of R join.
TwoSteps(R, F) ==
    {p : p \in R \cup {q \in F \X F :
                          \E b \in F : <<q[1], b>> \in R /\ <<b, q[2]>> \in R}}

RECURSIVE Chains(_, _)
\* The pairs of fingerprints of F that a chain of steps of R joins.
Chains(R, F) ==
    CHOOSE X \in {IF N = R THEN R ELSE Chains(N, F) : N \in {TwoSteps(R, F)}} : TRUE

GroupsOf(k) == {g \in 1..Len(dd.result) : k \in Range(dd.result[g].ids)}

C10_ConnectedComponents ==
    dd.pc = "done" =>
        /\ (dd.bookmark_rows = << >> => dd.result = << >>)
        /\ \A k \in 1..Len(dd.bookmark_rows) :
              IF k \in Fingerprinted
              THEN /\ Cardinality(GroupsOf(k)) = 1
                   /\ \A g \in GroupsOf(k) : Count(dd.result[g].ids, k) = 1
              ELSE GroupsOf(k) = {}
        /\ \A g \in 1..Len(dd.result) :
              dd.result[g].ids /= << >> /\ Range(dd.result[g].ids) \subseteq Fingerprinted
        /\ \A F \in {Fingerprints} :
              \A near \in {NearPairs(F)} :
                 \A chained \in {Chains(near, F)} :
                    \A k1 \in Fingerprinted, k2 \in Fingerprinted :
                       (GroupsOf(k1) = GroupsOf(k2)) <=> <<FpOf(k1), FpOf(k2)>> \in chained

\* Three rows in one group although the fingerprints of two of them are
\* farther apart than the threshold: the third one links them.
C10_Witness ==
    /\ dd.pc = "done"
    /\ \E g \in 1..Len(dd.result) :
          /\ Len(dd.result[g].ids) = 3
          /\ \E k1 \in Range(dd.result[g].ids), k2 \in Range(dd.result[g].ids) :
                hamming_distance(FpOf(k1), FpOf(k2)) > SIMHASH_HAMMING_THRESHOLD


(***************************************************************************)
(* C20  In every reachable state a bookmark whose cluster_id is set has    *)
(* status embedded (and a vector); cluster_id and cluster_label are        *)
(* written only to bookmarks that had status embedded and a vector when    *)
(* they were written, and no step takes a bookmark out of status embedded. *)
(***************************************************************************)
Embedded(bm, i) == bm[i].status = "embedded" /\ bm[i].embedding /= NoVec

C20_AssignedIsEmbedded ==
    \A i \in Items : bookmarks[i].cluster_id /= None => Embedded(bookmarks, i)

C20_WritesOnlyEmbedded ==
    \A i \in Items :
       /\ (\/ bookmarks'[i].cluster_id /= bookmarks[i].cluster_id
           \/ bookmarks'[i].cluster_label /= bookmarks[i].cluster_label)
             => Embedded(bookmarks, i) /\ Embedded(bookmarks', i)
       /\ bookmarks[i].status = "embedded" => bookmarks'[i].status = "embedded"

C20_ClusteredStaysEmbedded ==
    [](C20_AssignedIsEmbedded) /\ [][C20_WritesOnlyEmbedded]_vars

\* An owner has bookmarks with a cluster and a bookmark that failed to embed.
C20_Witness ==
    \E i, k \in Items :
       /\ bookmarks[i].user_id = bookmarks[k].user_id
       /\ bookmarks[i].cluster_id /= None /\ bookmarks[i].cluster_label /= NoLabel
       /\ bookmarks[k].status /= "embedded" /\ bookmarks[k].cluster_id = None

(***************************************************************************)
(* scripts/migrate_to_dup_topics.py                                        *)
(*                                                                         *)
(* mg holds the tables the script reads and writes (rows in the order of   *)
(* their insertion, the id of a row being its position), the checkpoint   *)
(* file, and the arguments, locals and position of run_migration.          *)
(* An owner is named by a number; the order of the numbers stands for the  *)
(* order of the identifiers that ORDER BY id and str(a) <= str(b) use.     *)
(***************************************************************************)
MaxBookmarks == 3
MgRuns == 2
MgFaults == 1
ChunkSize == 2

\* The NULL of the column domain (the domains are strings).
NoDomain == "NULL"

\* A bookmark as it is saved: the domain _get_domain finds in its url, the
\* value compute_simhash gives for its title and summary, and the labels its
\* stored tags normalize to (or generate_tags derives).
Pages ==
    << [domain |-> "a.com", simhash |-> 0, tag_labels |-> << >>],
       [domain |-> "a.com", simhash |-> 3, tag_labels |-> <<"x", "y">>],
       [domain |-> "b.org", simhash |-> 15, tag_labels |-> <<"y">>],
       [domain |-> NoDomain, simhash |-> Pow2(FpBits - 1) + 1, tag_labels |-> <<"x", "x">>] >>

\* The pages that are saved, in the order of their saving: one of these lists
\* (taken again from its start when it is used up).
Datasets == << <<1, 2, 3>>, <<2, 3, 4>>, <<4, 1, 2>> >>

PageOf(dataset, b) == Datasets[dataset][((b - 1) % Len(Datasets[dataset])) + 1]

\* The first two bookmarks are saved by one owner, the next two by the next.
MgOwnerOf(b) == (b + 1) \div 2
MgOwners == {MgOwnerOf(b) : b \in 1..MaxBookmarks}

\* h if h < (1 << 63) else h - (1 << 64)
_simhash_to_bigint(h) ==
    IF h = None THEN None
    ELSE IF h < Pow2(FpBits - 1) THEN h ELSE h - Pow2(FpBits)

\* 1.0 / (rank + 1) if rank < 20 else 0.05, as a fraction
Weight(rank) == IF rank < 20 THEN <<1, rank + 1>> ELSE <<5, 100>>

sentinel_label == "__no_auto_tags__"

MgRunning(m) == m.pc \notin {"idle", "done", "raised", "killed"}

\* EXISTS (SELECT 1 FROM bookmark_tags bt WHERE bt.bookmark_id = bookmarks.id)
HasBookmarkTags(m, b) ==
    \E n \in 1..Len(m.bookmark_tags) : m.bookmark_tags[n].bookmark_id = b

\* simhash64 IS NULL OR NOT EXISTS (... bookmark_tags ...)
Unbackfilled(m, b) == m.bookmarks[b].simhash64 = None \/ ~HasBookmarkTags(m, b)

UnbackfilledOf(m, user_id) ==
    {b \in 1..Len(m.bookmarks) : m.bookmarks[b].user_id = user_id /\ Unbackfilled(m, b)}

RECURSIVE ChunkRows(_, _, _)
\* The rows of the chunk as the SELECT returned them.
ChunkRows(m, ids, n) ==
    IF n > Len(ids) THEN << >>
    ELSE <<[id |-> ids[n], user_id |-> m.bookmarks[ids[n]].user_id,
            simhash64 |-> m.bookmarks[ids[n]].simhash64,
            has_bookmark_tags |-> HasBookmarkTags(m, ids[n])]>>
         \o ChunkRows(m, ids, n + 1)

\* WHERE user_id = $1 AND (unbackfilled) ORDER BY created_at ASC LIMIT $2
FetchUnbackfilled(m, user_id, limit) ==
    ChunkRows(m, Take(SortedSeq(UnbackfilledOf(m, user_id)), limit), 1)

get_users_to_process(m, only_user_id) ==
    LET ids == {m.bookmarks[b].user_id : b \in 1..Len(m.bookmarks)}
    IN  IF only_user_id /= None
        THEN IF only_user_id \in ids THEN <<only_user_id>> ELSE << >>
        ELSE SortedSeq(ids)

\* POST /bookmarks while no migration runs and one is still to come: a row
\* with no fingerprint, no domain and no tag link.
SaveBookmark ==
    /\ ~MgRunning(mg)
    /\ Len(mg.bookmarks) < MaxBookmarks
    /\ mg.runs < MgRuns
    /\ mg' = [mg EXCEPT !.bookmarks =
                 Append(@, [user_id |-> MgOwnerOf(Len(mg.bookmarks) + 1),
                            page |-> PageOf(mg.dataset, Len(mg.bookmarks) + 1),
                            simhash64 |-> None, domain |-> NoDomain])]
    /\ UNCHANGED <<batchVars, cs, dd>>

\* run_migration up to the loop over the owners: the checkpoint is read
\* only with --resume, and the owners are listed.
MgStart ==
    /\ ~MgRunning(mg)
    /\ mg.runs < MgRuns
    /\ \E dry_run \in BOOLEAN, resume \in BOOLEAN, only_user_id \in {None} \cup MgOwners :
          LET users == get_users_to_process(mg, only_user_id)
              \* (for the claims) this call resumes a call that wrote and was
              \* interrupted, and the bookmarks there were when that call began
              resumed == /\ resume /\ ~dry_run
                         /\ mg.pc \in {"killed", "raised"} /\ ~mg.dry_run
          IN  mg' = [mg EXCEPT !.runs = @ + 1, !.killed_at = "",
                               !.resumed = resumed,
                               !.base = IF resumed THEN @ ELSE Len(mg.bookmarks),
                               !.dry_run = dry_run, !.resume = resume,
                               !.only_user_id = only_user_id,
                               !.last_completed_user_id =
                                   IF resume THEN mg.checkpoint ELSE None,
                               !.users = users, !.u = 1,
                               !.rows = << >>, !.i = 0, !.k = 0,
                               !.groups = << >>, !.g = 0,
                               !.dup_group_id = None,
                               !.root_id = None, !.dg_rows = << >>,
                               !.visited = << >>, !.skipped = {},
                               !.created = 0, !.n_dg = None, !.before = << >>,
                               !.unchanged = FALSE,
                               !.pc = IF users = << >> THEN "done" ELSE "user"]
    /\ UNCHANGED <<batchVars, cs, dd>>

\* Variant that skips only the owners strictly below the checkpoint.
MgUser_strict ==
    /\ mg.pc = "user"
    /\ mg' = IF mg.u > Len(mg.users)
             THEN [mg EXCEPT !.pc = "done"]
             ELSE LET user_id == mg.users[mg.u]
                  IN  IF /\ mg.resume
                         /\ mg.last_completed_user_id /= None
                         /\ user_id < mg.last_completed_user_id
                      THEN [mg EXCEPT !.skipped = @ \cup {user_id}, !.u = @ + 1]
                      ELSE [mg EXCEPT !.visited = Append(@, user_id), !.pc = "fetch"]
    /\ UNCHANGED <<batchVars, cs, dd>>

\* "for user_id in users": the end of the loop, the skip of an owner at or
\* below the checkpoint, or the start of the owner's chunk loop.
MgUser ==
    /\ mg.pc = "user"
    /\ mg' = IF mg.u > Len(mg.users)
             THEN [mg EXCEPT !.pc = "done"]
             ELSE LET user_id == mg.users[mg.u]
                  IN  IF /\ mg.resume
                         /\ mg.last_completed_user_id /= None
                         /\ user_id <= mg.last_completed_user_id
                      THEN [mg EXCEPT !.skipped = @ \cup {user_id}, !.u = @ + 1]
                      ELSE [mg EXCEPT !.visited = Append(@, user_id), !.pc = "fetch"]
    /\ UNCHANGED <<batchVars, cs, dd>>

\* The SELECT of the chunk loop and "if not rows: break".
MgFetch ==
    /\ mg.pc = "fetch"
    /\ LET rows == FetchUnbackfilled(mg, mg.users[mg.u], ChunkSize)
       IN  mg' = IF rows = << >>
                 THEN [mg EXCEPT !.pc = "dup_fetch", !.rows = << >>]
                 ELSE [mg EXCEPT !.pc = "columns", !.rows = rows, !.i = 1]
    /\ UNCHANGED <<batchVars, cs, dd>>

\* Variant whose UPDATE leaves simhash64 out of the SET list.
UpdateColumns_nofp(table, id) ==
    IF table[id].simhash64 = None \/ table[id].domain = NoDomain
    THEN [table EXCEPT ![id] = [@ EXCEPT !.domain = Pages[table[id].page].domain]]
    ELSE table

\* UPDATE bookmarks SET domain, ..., simhash64 WHERE id = $6 AND
\* (simhash64 IS NULL OR domain IS NULL)
UpdateColumns(table, id) ==
    IF table[id].simhash64 = None \/ table[id].domain = NoDomain
    THEN [table EXCEPT ![id] =
             [@ EXCEPT !.domain = Pages[table[id].page].domain,
                       !.simhash64 = _simhash_to_bigint(Pages[table[id].page].simhash)]]
    ELSE table

\* One pass of the loop of backfill_bookmark_columns.
MgColumns ==
    /\ mg.pc = "columns"
    /\ LET row == mg.rows[mg.i]
           after == IF mg.i < Len(mg.rows)
                    THEN [mg EXCEPT !.i = @ + 1]
                    ELSE [mg EXCEPT !.pc = "tags", !.i = 1, !.k = 1]
       IN  mg' = IF row.simhash64 /= None \/ mg.dry_run
                 THEN after
                 ELSE [after EXCEPT !.bookmarks = UpdateColumns(@, row.id)]
    /\ UNCHANGED <<batchVars, cs, dd>>

TagRows(tags, user_id, label) ==
    {n \in 1..Len(tags) : tags[n].user_id = user_id /\ tags[n].normalized_label = label}

\* INSERT INTO tags ... ON CONFLICT (user_id, normalized_label) DO NOTHING
UpsertTag(tags, user_id, label) ==
    IF TagRows(tags, user_id, label) /= {} THEN tags
    ELSE Append(tags, [user_id |-> user_id, normalized_label |-> label])

\* SELECT id FROM tags WHERE user_id = $1 AND normalized_label = $2
TagId(tags, user_id, label) ==
    CHOOSE n \in TagRows(tags, user_id, label) :
       \A other \in TagRows(tags, user_id, label) : n <= other

LinkRows(bookmark_tags, bookmark_id, tag_id) ==
    {n \in 1..Len(bookmark_tags) : /\ bookmark_tags[n].bookmark_id = bookmark_id
                                   /\ bookmark_tags[n].tag_id = tag_id}

RECURSIVE Reweigh(_, _, _, _, _)
\* "DO UPDATE SET weight = EXCLUDED.weight" on the row of the pair.
Reweigh(bookmark_tags, bookmark_id, tag_id, weight, n) ==
    IF n > Len(bookmark_tags) THEN << >>
    ELSE <<IF n \in LinkRows(bookmark_tags, bookmark_id, tag_id)
           THEN [bookmark_tags[n] EXCEPT !.weight = weight]
           ELSE bookmark_tags[n]>>
         \o Reweigh(bookmark_tags, bookmark_id, tag_id, weight, n + 1)

\* Variant of the INSERT without "ON CONFLICT (bookmark_id, tag_id)".
UpsertLink_always(bookmark_tags, bookmark_id, tag_id, weight) ==
    Append(bookmark_tags,
           [bookmark_id |-> bookmark_id, tag_id |-> tag_id, weight |-> weight])

\* INSERT INTO bookmark_tags ... ON CONFLICT (bookmark_id, tag_id)
\* DO UPDATE SET weight = EXCLUDED.weight
UpsertLink(bookmark_tags, bookmark_id, tag_id, weight) ==
    IF LinkRows(bookmark_tags, bookmark_id, tag_id) /= {}
    THEN Reweigh(bookmark_tags, bookmark_id, tag_id, weight, 1)
    ELSE Append(bookmark_tags,
                [bookmark_id |-> bookmark_id, tag_id |-> tag_id, weight |-> weight])

\* Variant whose INSERT has no ON CONFLICT clause and no unique index to stop it.
InsertLink_always(bookmark_tags, bookmark_id, tag_id) ==
    Append(bookmark_tags,
           [bookmark_id |-> bookmark_id, tag_id |-> tag_id, weight |-> <<0, 1>>])

\* INSERT INTO bookmark_tags ... VALUES ($1, $2, 0) ON CONFLICT DO NOTHING
InsertLink(bookmark_tags, bookmark_id, tag_id) ==
    IF LinkRows(bookmark_tags, bookmark_id, tag_id) /= {} THEN bookmark_tags
    ELSE Append(bookmark_tags,
                [bookmark_id |-> bookmark_id, tag_id |-> tag_id, weight |-> <<0, 1>>])

\* The two writes for the label of one rank: the tag and the link.
LinkLabel(m, user_id, bookmark_id, label, rank) ==
    LET tags == UpsertTag(m.tags, user_id, label)
    IN  [m EXCEPT !.tags = tags,
                  !.bookmark_tags = UpsertLink(@, bookmark_id,
                                               TagId(tags, user_id, label),
                                               Weight(rank))]

_ensure_sentinel_tag_and_link(m, user_id, bookmark_id) ==
    LET tags == UpsertTag(m.tags, user_id, sentinel_label)
    IN  [m EXCEPT !.tags = tags,
                  !.bookmark_tags = InsertLink(@, bookmark_id,
                                               TagId(tags, user_id, sentinel_label))]

\* The labels backfill_tags_for_chunk derives for the row.
TagLabels(m, id) == Pages[m.bookmarks[id].page].tag_labels

\* The position after the row i of backfill_tags_for_chunk: the next row, or
\* the next SELECT of the chunk loop.
AfterTagRow(m) ==
    IF m.i < Len(m.rows)
    THEN [m EXCEPT !.i = @ + 1, !.k = 1]
    ELSE [m EXCEPT !.pc = "fetch", !.i = 0, !.k = 0]

\* One step of backfill_tags_for_chunk: a row that is skipped, the sentinel
\* of a row without label, or the tag and the link of one label of the row.
MgTags ==
    /\ mg.pc = "tags"
    /\ LET row == mg.rows[mg.i]
           tag_labels == TagLabels(mg, row.id)
       IN  mg' = IF row.has_bookmark_tags \/ mg.dry_run
                 THEN AfterTagRow(mg)
                 ELSE IF tag_labels = << >>
                 THEN AfterTagRow(_ensure_sentinel_tag_and_link(mg, row.user_id, row.id))
                 ELSE LET linked == LinkLabel(mg, row.user_id, row.id,
                                              tag_labels[mg.k], mg.k - 1)
                      IN  IF mg.k < Len(tag_labels)
                          THEN [linked EXCEPT !.k = @ + 1]
                          ELSE AfterTagRow(linked)
    /\ UNCHANGED <<batchVars, cs, dd>>

RECURSIVE SetOrder(_)
\* list({x[0] for x in items}): CPython iterates a set of at most four small
\* integers by table slot, hash & 7 (the simhashes of Pages have four
\* different slots, so no probing takes place).
SetOrder(S) ==
    IF S = {} THEN << >>
    ELSE LET first == CHOOSE x \in S : \A y \in S : x % 8 <= y % 8
         IN  <<first>> \o SetOrder(S \ {first})

RECURSIVE FingerprintedRows(_, _, _)
\* SELECT id, user_id, simhash64, created_at FROM bookmarks WHERE user_id = $1
\* AND simhash64 IS NOT NULL ORDER BY created_at DESC NULLS LAST
FingerprintedRows(m, user_id, b) ==
    IF b = 0 THEN << >>
    ELSE IF m.bookmarks[b].user_id = user_id /\ m.bookmarks[b].simhash64 /= None
         THEN <<[id |-> b, simhash64 |-> m.bookmarks[b].simhash64, created_at |-> b]>>
              \o FingerprintedRows(m, user_id, b - 1)
         ELSE FingerprintedRows(m, user_id, b - 1)

\* group_by_simhash of services/dedup.py, with the set order of CPython.
group_by_simhash(bookmark_rows) ==
    LET items == SortItems(CollectItems(bookmark_rows, 1))
        simhashes == SetOrder({items[n].sh : n \in 1..Len(items)})
    IN  IF bookmark_rows = << >> \/ items = << >> THEN << >>
        ELSE BuildResult(UnionAll(<< >>, simhashes, 1, 2), items)

\* The ids of the owner's bookmarks that have a fingerprint.
FpIds(m, user_id) ==
    {b \in 1..Len(m.bookmarks) : /\ m.bookmarks[b].user_id = user_id
                                 /\ m.bookmarks[b].simhash64 /= None}

\* "return created" (and "return 0"): the position after
\* build_dup_groups_for_user, with n_dg assigned.
AfterDupGroups(m) ==
    LET user_id == m.users[m.u]
    IN  [m EXCEPT !.pc = "topics_root", !.groups = << >>, !.g = 0, !.k = 0,
                  !.dup_group_id = None,
                  !.n_dg = m.created, !.created = 0,
                  !.built = IF m.dry_run THEN @
                            ELSE {p \in @ : p[1] /= user_id}
                                 \cup {<<user_id, FpIds(m, user_id)>>}]

\* build_dup_groups_for_user up to its loop: the fetch, "if not rows: return 0",
\* and the grouping.
MgDupFetch ==
    /\ mg.pc = "dup_fetch"
    /\ LET user_id == mg.users[mg.u]
           rows == FingerprintedRows(mg, user_id, Len(mg.bookmarks))
           called == [mg EXCEPT !.created = 0,
                                !.before = <<mg.dup_groups, mg.bookmark_dup_map>>,
                                !.unchanged = <<user_id, FpIds(mg, user_id)>> \in mg.built]
       IN  mg' = IF rows = << >>
                 THEN AfterDupGroups(called)
                 ELSE [called EXCEPT !.pc = "dup_group", !.g = 1,
                                 !.groups = group_by_simhash(rows)]
    /\ UNCHANGED <<batchVars, cs, dd>>

\* SELECT id FROM dup_groups WHERE user_id = $1 AND simhash_bucket = $2
DupGroupRows(dup_groups, user_id, simhash_bucket) ==
    {n \in 1..Len(dup_groups) : /\ dup_groups[n].user_id = user_id
                                /\ dup_groups[n].simhash_bucket = simhash_bucket}

\* The position after the group g: the next group, or the return.
AfterGroup(m) ==
    IF m.g < Len(m.groups)
    THEN [m EXCEPT !.pc = "dup_group", !.g = @ + 1, !.k = 0, !.dup_group_id = None]
    ELSE AfterDupGroups(m)

\* Variant without the lookup of an existing dup_group: every pass inserts.
MgDupGroup_nolookup ==
    /\ mg.pc = "dup_group"
    /\ LET group == mg.groups[mg.g]
           user_id == mg.users[mg.u]
           bucket == _simhash_to_bigint(group.simhash_bucket)
       IN  mg' = IF mg.dry_run THEN AfterGroup([mg EXCEPT !.created = @ + 1])
                 ELSE [mg EXCEPT !.pc = "dup_map", !.k = 1, !.created = @ + 1,
                                 !.dup_group_id = Len(mg.dup_groups) + 1,
                                 !.dup_groups =
                                     Append(@, [user_id |-> user_id,
                                                representative_bookmark_id |->
                                                    group.representative_id,
                                                size |-> Len(group.ids),
                                                simhash_bucket |-> bucket])]
    /\ UNCHANGED <<batchVars, cs, dd>>

\* The head of one pass of "for simhash_bucket, bookmark_ids,
\* representative_id in groups": the existing dup_group, or a new one.
MgDupGroup ==
    /\ mg.pc = "dup_group"
    /\ LET group == mg.groups[mg.g]
           user_id == mg.users[mg.u]
           bucket == _simhash_to_bigint(group.simhash_bucket)
           existing == DupGroupRows(mg.dup_groups, user_id, bucket)
       IN  mg' = IF mg.dry_run THEN AfterGroup([mg EXCEPT !.created = @ + 1])
                 ELSE IF existing /= {}
                 THEN [mg EXCEPT !.pc = "dup_map", !.k = 1,
                                 !.dup_group_id = CHOOSE n \in existing : TRUE]
                 ELSE [mg EXCEPT !.pc = "dup_map", !.k = 1, !.created = @ + 1,
                                 !.dup_group_id = Len(mg.dup_groups) + 1,
                                 !.dup_groups =
                                     Append(@, [user_id |-> user_id,
                                                representative_bookmark_id |->
                                                    group.representative_id,
                                                size |-> Len(group.ids),
                                                simhash_bucket |-> bucket])]
    /\ UNCHANGED <<batchVars, cs, dd>>

MapRows(bookmark_dup_map, bookmark_id, dup_group_id) ==
    {n \in 1..Len(bookmark_dup_map) : /\ bookmark_dup_map[n].bookmark_id = bookmark_id
                                      /\ bookmark_dup_map[n].dup_group_id = dup_group_id}

\* INSERT INTO bookmark_dup_map ... ON CONFLICT (bookmark_id, dup_group_id)
\* DO NOTHING
InsertMap(bookmark_dup_map, bookmark_id, dup_group_id) ==
    IF MapRows(bookmark_dup_map, bookmark_id, dup_group_id) /= {} THEN bookmark_dup_map
    ELSE Append(bookmark_dup_map,
                [bookmark_id |-> bookmark_id, dup_group_id |-> dup_group_id])

\* One pass of "for bid in bookmark_ids".
MgDupMap ==
    /\ mg.pc = "dup_map"
    /\ LET group == mg.groups[mg.g]
           mapped == [mg EXCEPT !.bookmark_dup_map =
                         InsertMap(@, group.ids[mg.k], mg.dup_group_id)]
       IN  mg' = IF mg.k < Len(group.ids)
                 THEN [mapped EXCEPT !.k = @ + 1]
                 ELSE AfterGroup(mapped)
    /\ UNCHANGED <<batchVars, cs, dd>>

\* SELECT id FROM topics WHERE user_id = $1 AND parent_id IS NULL LIMIT 1
RootRows(topics, user_id) ==
    {n \in 1..Len(topics) : topics[n].user_id = user_id /\ topics[n].parent_id = None}

\* SELECT id FROM topics WHERE user_id = $1 AND parent_id = $2 AND label = $3
TopicRows(topics, user_id, parent_id, label) ==
    {n \in 1..Len(topics) : /\ topics[n].user_id = user_id
                            /\ topics[n].parent_id = parent_id
                            /\ topics[n].label = label}

RECURSIVE DupGroupsWithDomain(_, _, _)
\* SELECT dg.id, b.domain FROM dup_groups dg JOIN bookmarks b ON b.id =
\* dg.representative_bookmark_id WHERE dg.user_id = $1 AND b.domain IS NOT NULL
DupGroupsWithDomain(m, user_id, n) ==
    IF n > Len(m.dup_groups) THEN << >>
    ELSE LET dg == m.dup_groups[n]
             domain == m.bookmarks[dg.representative_bookmark_id].domain
         IN  IF dg.user_id = user_id /\ domain /= NoDomain
             THEN <<[dup_group_id |-> n, domain |-> domain]>>
                  \o DupGroupsWithDomain(m, user_id, n + 1)
             ELSE DupGroupsWithDomain(m, user_id, n + 1)

\* The position after build_topics_for_user.
AfterTopics(m) == [m EXCEPT !.pc = "checkpoint", !.dg_rows = << >>, !.g = 0,
                            !.root_id = None]

\* build_topics_for_user up to its loop: the root topic of the owner (in a
\* dry run a missing root ends the call) and the fetch of the dup_groups.
MgTopicsRoot ==
    /\ mg.pc = "topics_root"
    /\ LET user_id == mg.users[mg.u]
           root == RootRows(mg.topics, user_id)
           withRoot == IF root /= {}
                       THEN [mg EXCEPT !.root_id = CHOOSE n \in root : TRUE]
                       ELSE [mg EXCEPT !.root_id = Len(mg.topics) + 1,
                                       !.topics = Append(@, [user_id |-> user_id,
                                                             parent_id |-> None,
                                                             label |-> "root"])]
           rows == DupGroupsWithDomain(withRoot, user_id, 1)
       IN  mg' = IF root = {} /\ mg.dry_run THEN AfterTopics(mg)
                 ELSE IF rows = << >> THEN AfterTopics(withRoot)
                 ELSE [withRoot EXCEPT !.pc = "topic_row", !.dg_rows = rows, !.g = 1]
    /\ UNCHANGED <<batchVars, cs, dd>>

TopicLinkRows(dup_group_topics, dup_group_id, topic_id) ==
    {n \in 1..Len(dup_group_topics) : /\ dup_group_topics[n].dup_group_id = dup_group_id
                                      /\ dup_group_topics[n].topic_id = topic_id}

\* INSERT INTO dup_group_topics ... ON CONFLICT (dup_group_id, topic_id) DO NOTHING
InsertTopicLink(dup_group_topics, dup_group_id, topic_id) ==
    IF TopicLinkRows(dup_group_topics, dup_group_id, topic_id) /= {} THEN dup_group_topics
    ELSE Append(dup_group_topics, [dup_group_id |-> dup_group_id, topic_id |-> topic_id])

\* One pass of "for r in rows": the topic of the domain under the root (found
\* or inserted; a dry run inserts nothing and links nothing) and the link.
MgTopicRow ==
    /\ mg.pc = "topic_row"
    /\ LET r == mg.dg_rows[mg.g]
           user_id == mg.users[mg.u]
           existing_topic == TopicRows(mg.topics, user_id, mg.root_id, r.domain)
           topic_id == IF existing_topic /= {} THEN CHOOSE n \in existing_topic : TRUE
                       ELSE Len(mg.topics) + 1
           written ==
               [mg EXCEPT !.topics = IF existing_topic /= {} THEN @
                                     ELSE Append(@, [user_id |-> user_id,
                                                     parent_id |-> mg.root_id,
                                                     label |-> r.domain]),
                          !.dup_group_topics =
                              InsertTopicLink(@, r.dup_group_id, topic_id)]
           done == IF mg.dry_run THEN mg ELSE written
       IN  mg' = IF mg.g < Len(mg.dg_rows)
                 THEN [done EXCEPT !.g = @ + 1]
                 ELSE AfterTopics(done)
    /\ UNCHANGED <<batchVars, cs, dd>>

\* Variant that writes the checkpoint file in a dry run as well.
MgCheckpoint_always ==
    /\ mg.pc = "checkpoint"
    /\ mg' = [mg EXCEPT !.pc = "user", !.u = @ + 1, !.checkpoint = mg.users[mg.u],
                        !.n_dg = None, !.before = << >>, !.unchanged = FALSE]
    /\ UNCHANGED <<batchVars, cs, dd>>

\* "if not dry_run: save_checkpoint(...)", and the next owner.
MgCheckpoint ==
    /\ mg.pc = "checkpoint"
    /\ mg' = [mg EXCEPT !.pc = "user", !.u = @ + 1,
                        !.checkpoint = IF mg.dry_run THEN @ ELSE mg.users[mg.u],
                        !.n_dg = None, !.before = << >>, !.unchanged = FALSE]
    /\ UNCHANGED <<batchVars, cs, dd>>

ChunkPcs == {"columns", "tags"}
BuildPcs == {"dup_fetch", "dup_group", "dup_map", "topics_root", "topic_row"}

\* Variant with "except Exception: continue" in place of the two "raise":
\* the loop goes on with the next owner.
MgRaise_continue ==
    /\ mg.pc \in ChunkPcs \cup BuildPcs
    /\ mg.faults < MgFaults
    /\ mg' = [mg EXCEPT !.pc = "user", !.u = @ + 1, !.faults = @ + 1]
    /\ UNCHANGED <<batchVars, cs, dd>>

\* Variant with "except Exception: pass" in place of the two "raise".
MgRaise_swallow ==
    /\ mg.pc \in ChunkPcs \cup BuildPcs
    /\ mg.faults < MgFaults
    /\ mg' = [mg EXCEPT !.pc = "checkpoint", !.faults = @ + 1]
    /\ UNCHANGED <<batchVars, cs, dd>>

\* A statement of backfill_*, build_dup_groups_for_user or
\* build_topics_for_user raises: "except Exception as e: print(...); raise".
MgRaise ==
    /\ mg.pc \in ChunkPcs \cup BuildPcs
    /\ mg.faults < MgFaults
    /\ mg' = [mg EXCEPT !.pc = "raised", !.faults = @ + 1]
    /\ UNCHANGED <<batchVars, cs, dd>>

\* The process is terminated from outside, between two statements.
MgKill ==
    /\ MgRunning(mg)
    /\ mg.faults < MgFaults
    /\ mg' = [mg EXCEPT !.pc = "killed", !.killed_at = mg.pc, !.faults = @ + 1]
    /\ UNCHANGED <<batchVars, cs, dd>>

InitMigrate ==
    /\ BatchIdle
    /\ cs = CsIdle
    /\ dd = DdIdle
    /\ \E dataset \in 1..Len(Datasets) : mg = [MgIdle EXCEPT !.dataset = dataset]

NextMigrate ==
    \/ SaveBookmark
    \/ MgStart
    \/ MgUser
    \/ MgFetch
    \/ MgColumns
    \/ MgTags
    \/ MgDupFetch
    \/ MgDupGroup
    \/ MgDupMap
    \/ MgTopicsRoot
    \/ MgTopicRow
    \/ MgCheckpoint
    \/ MgRaise
    \/ MgKill

SpecMigrate == InitMigrate /\ [][NextMigrate]_vars

(***************************************************************************)
(* Reading the tables of the migration                                     *)
(***************************************************************************)
MgBookmarks == 1..Len(mg.bookmarks)
BookmarksOf(user_id) == {b \in MgBookmarks : mg.bookmarks[b].user_id = user_id}

\* The dup_groups a bookmark is mapped to in bookmark_dup_map.
GroupsOfBookmark(b) ==
    {mg.bookmark_dup_map[n].dup_group_id :
        n \in {k \in 1..Len(mg.bookmark_dup_map) : mg.bookmark_dup_map[k].bookmark_id = b}}

DupGroupsOfUser(user_id) ==
    {n \in 1..Len(mg.dup_groups) : mg.dup_groups[n].user_id = user_id}

\* The canonical roots group_by_simhash finds for the owner's fingerprinted
\* bookmarks as they are now, as the bigint of the column simhash_bucket.
RootsNow(user_id) ==
    LET groups == group_by_simhash(FingerprintedRows(mg, user_id, Len(mg.bookmarks)))
    IN  {_simhash_to_bigint(groups[n].simhash_bucket) : n \in 1..Len(groups)}

\* build_dup_groups_for_user has just returned from a run that writes.
DupGroupsBuilt == mg.pc = "topics_root" /\ ~mg.dry_run

(***************************************************************************)
(* C11  Whatever runs of build_dup_groups_for_user and savings of further  *)
(* bookmarks came before: a bookmark is mapped to at most one dup_group,   *)
(* which is one of its owner; and when build_dup_groups_for_user has       *)
(* returned, every fingerprinted bookmark of the owner is mapped to        *)
(* exactly one dup_group and the owner has exactly one dup_group per       *)
(* canonical root of that run.                                             *)
(***************************************************************************)
C11_OneGroupPerRoot ==
    /\ \A b \in MgBookmarks :
          /\ Cardinality(GroupsOfBookmark(b)) <= 1
          /\ \A n \in GroupsOfBookmark(b) :
                mg.dup_groups[n].user_id = mg.bookmarks[b].user_id
    /\ DupGroupsBuilt =>
          LET user_id == mg.users[mg.u]
          IN  /\ \A b \in BookmarksOf(user_id) :
                    mg.bookmarks[b].simhash64 /= None
                       => Cardinality(GroupsOfBookmark(b)) = 1
              /\ Cardinality(DupGroupsOfUser(user_id)) = Cardinality(RootsNow(user_id))
              /\ {mg.dup_groups[n].simhash_bucket : n \in DupGroupsOfUser(user_id)}
                    = RootsNow(user_id)

RECURSIVE BackfillTags(_, _, _, _)
\* The writes of backfill_tags_for_chunk for one row without tag link, from
\* the label k on, when nothing interrupts them.
BackfillTags(m, user_id, id, k) ==
    LET tag_labels == TagLabels(m, id)
    IN  IF tag_labels = << >> THEN _ensure_sentinel_tag_and_link(m, user_id, id)
        ELSE IF k > Len(tag_labels) THEN m
        ELSE BackfillTags(LinkLabel(m, user_id, id, tag_labels[k], k - 1), user_id, id, k + 1)

\* The tag links of a bookmark in the tables m, as (label, weight) pairs.
LinksIn(m, b) ==
    {<<m.tags[m.bookmark_tags[n].tag_id].normalized_label, m.bookmark_tags[n].weight>> :
        n \in {k \in 1..Len(m.bookmark_tags) : m.bookmark_tags[k].bookmark_id = b}}

\* The tag links an uninterrupted backfill gives the bookmark.
ExpectedLinks(b) ==
    LinksIn(BackfillTags([mg EXCEPT !.tags = << >>, !.bookmark_tags = << >>],
                         mg.bookmarks[b].user_id, b, 1), b)

(***************************************************************************)
(* C12  A call with --resume that completes after a writing call that was  *)
(* interrupted (killed, or ended by an exception) leaves, for every owner  *)
(* it processed, what the uninterrupted call would have left: each         *)
(* bookmark has its fingerprint and domain, the tag links of all its       *)
(* labels (or the one sentinel link), and one dup_group membership, with   *)
(* one dup_group per canonical root.  (No bookmark was saved in between.)  *)
(***************************************************************************)
C12_ResumeRestores ==
    (mg.pc = "done" /\ mg.resumed /\ Len(mg.bookmarks) = mg.base) =>
       \A user_id \in Range(mg.visited) :
          /\ \A b \in BookmarksOf(user_id) :
                /\ mg.bookmarks[b].simhash64
                      = _simhash_to_bigint(Pages[mg.bookmarks[b].page].simhash)
                /\ mg.bookmarks[b].domain = Pages[mg.bookmarks[b].page].domain
                /\ LinksIn(mg, b) = ExpectedLinks(b)
                /\ Cardinality(GroupsOfBookmark(b)) = 1
          /\ {mg.dup_groups[n].simhash_bucket : n \in DupGroupsOfUser(user_id)}
                = RootsNow(user_id)

(***************************************************************************)
(* C13  Of the owners the loop of run_migration has come to, those at or   *)
(* below the checkpoint read at the start are skipped when --resume is     *)
(* given and a checkpoint exists, and only those; all the others are       *)
(* processed, in ascending order.  Without --resume, or without a          *)
(* checkpoint, none is skipped.  With no --user-id the owners are all the  *)
(* owners that have a bookmark.                                            *)
(***************************************************************************)
\* The positions of users the loop has decided on.
Decided ==
    IF mg.pc = "user" \/ (mg.pc = "killed" /\ mg.killed_at = "user")
    THEN 1..(mg.u - 1)
    ELSE 1..Min(mg.u, Len(mg.users))

AtOrBelowCheckpoint(user_id) ==
    /\ mg.resume
    /\ mg.last_completed_user_id /= None
    /\ user_id <= mg.last_completed_user_id

C13_SkipsAtOrBelowCheckpoint ==
    /\ mg.skipped = {mg.users[n] : n \in {d \in Decided : AtOrBelowCheckpoint(mg.users[d])}}
    /\ mg.visited =
          SortedSeq({mg.users[n] : n \in {d \in Decided : ~AtOrBelowCheckpoint(mg.users[d])}})
    /\ (~mg.resume \/ mg.last_completed_user_id = None) => mg.skipped = {}
    /\ mg.pc = "done" => mg.skipped \cup Range(mg.visited) = Range(mg.users)
    /\ (mg.pc = "user" /\ mg.u = 1) =>
          mg.last_completed_user_id = IF mg.resume THEN mg.checkpoint ELSE None
    /\ (MgRunning(mg) /\ mg.only_user_id = None) =>
          mg.users = SortedSeq({mg.bookmarks[b].user_id : b \in MgBookmarks})

\* A resumed call has skipped the checkpointed owner and processed the next.
C13_Witness ==
    /\ mg.pc = "done" /\ mg.resume /\ mg.only_user_id = None
    /\ mg.last_completed_user_id = 1
    /\ mg.skipped = {1} /\ mg.visited = <<2>>

\* Every group of the owner's fingerprinted bookmarks has its dup_group, to
\* which all its bookmarks are mapped.
GroupsBuilt(user_id) ==
    LET groups == group_by_simhash(FingerprintedRows(mg, user_id, Len(mg.bookmarks)))
    IN  \A g \in 1..Len(groups) :
           \E n \in DupGroupsOfUser(user_id) :
              /\ mg.dup_groups[n].simhash_bucket = _simhash_to_bigint(groups[g].simhash_bucket)
              /\ \A k \in 1..Len(groups[g].ids) : n \in GroupsOfBookmark(groups[g].ids[k])

\* Every dup_group of the owner whose representative has a domain is linked
\* to the owner's topic of that domain.
TopicsBuilt(user_id) ==
    \A n \in DupGroupsOfUser(user_id) :
       LET domain == mg.bookmarks[mg.dup_groups[n].representative_bookmark_id].domain
       IN  domain /= NoDomain =>
              \E l \in 1..Len(mg.dup_group_topics) :
                 /\ mg.dup_group_topics[l].dup_group_id = n
                 /\ mg.topics[mg.dup_group_topics[l].topic_id].user_id = user_id
                 /\ mg.topics[mg.dup_group_topics[l].topic_id].label = domain

(***************************************************************************)
(* C14  The checkpoint changes only in the step that follows               *)
(* build_topics_for_user of a call that writes, and to the owner of that   *)
(* step; at that moment the owner has no bookmark without fingerprint or   *)
(* without tag link, each group of the owner's bookmarks has its dup_group *)
(* and memberships, and the dup_groups have their topic links.  A call     *)
(* that raised writes no checkpoint.                                       *)
(***************************************************************************)
C14_Step ==
    \A user_id \in MgOwners :
       (mg'.checkpoint /= mg.checkpoint /\ mg'.checkpoint = user_id) =>
          /\ mg.pc = "checkpoint" /\ ~mg.dry_run
          /\ mg.users[mg.u] = user_id
          /\ UnbackfilledOf(mg, user_id) = {}
          /\ GroupsBuilt(user_id)
          /\ TopicsBuilt(user_id)

C14_CheckpointAfterBuild ==
    [][C14_Step /\ (mg.pc = "raised" /\ mg'.pc = "raised" => mg'.checkpoint = mg.checkpoint)]_vars

\* The checkpoint has just been written for an owner with two bookmarks,
\* which took two passes of the chunk loop's SELECT.
C14_Witness ==
    /\ mg.pc = "user" /\ mg.u = 2 /\ ~mg.dry_run
    /\ mg.checkpoint = mg.users[1]
    /\ Cardinality(BookmarksOf(mg.checkpoint)) = 2
    /\ \A b \in BookmarksOf(mg.checkpoint) : ~Unbackfilled(mg, b)
    /\ Len(mg.dup_group_topics) > 0

RECURSIVE LexLess(_, _)
\* s comes before t in the lexicographic order of tuples of naturals.
LexLess(s, t) ==
    /\ s /= << >> /\ t /= << >>
    /\ \/ Head(s) < Head(t)
       \/ Head(s) = Head(t) /\ LexLess(Tail(s), Tail(t))

\* What a call still has to do: the owners left, the part of the owner's
\* processing it is in, then within the chunk loop the unbackfilled bookmarks
\* of the owner outside the chunk at hand, the function at work, its rows
\* left and its labels left; within the builds the groups (rows) left, the
\* statement at work and the bookmarks of the group left.
Measure(m) ==
    LET user_id == m.users[m.u]
        ids == {m.rows[n].id : n \in 1..Len(m.rows)}
        part == CASE m.pc = "user" -> 6
                  [] m.pc \in {"fetch", "columns", "tags"} -> 5
                  [] m.pc = "dup_fetch" -> 4
                  [] m.pc \in {"dup_group", "dup_map"} -> 3
                  [] m.pc = "topics_root" -> 2
                  [] m.pc = "topic_row" -> 1
                  [] OTHER -> 0
        rest == CASE m.pc = "fetch" ->
                       <<Cardinality(UnbackfilledOf(m, user_id)), 0, 0, 0>>
                  [] m.pc = "columns" ->
                       <<Cardinality(UnbackfilledOf(m, user_id) \ ids), 2,
                         Len(m.rows) - m.i, 0>>
                  [] m.pc = "tags" ->
                       <<Cardinality(UnbackfilledOf(m, user_id) \ ids), 1,
                         Len(m.rows) - m.i, Len(TagLabels(m, m.rows[m.i].id)) + 1 - m.k>>
                  [] m.pc = "dup_group" -> <<Len(m.groups) - m.g, 1, 0, 0>>
                  [] m.pc = "dup_map" ->
                       <<Len(m.groups) - m.g, 0, Len(m.groups[m.g].ids) - m.k, 0>>
                  [] m.pc = "topic_row" -> <<Len(m.dg_rows) - m.g, 0, 0, 0>>
                  [] OTHER -> <<0, 0, 0, 0>>
    IN  <<Len(m.users) + 1 - m.u, part>> \o rest

(***************************************************************************)
(* C15  In a call that writes, when backfill_tags_for_chunk returns, no    *)
(* row of the chunk is unbackfilled any more; hence every statement of     *)
(* such a call leaves strictly less to do (fewer owners, a later part,     *)
(* fewer unbackfilled bookmarks outside the chunk, fewer rows or labels),  *)
(* so that the chunk loop and the call end after finitely many statements. *)
(***************************************************************************)
C15_ChunkBackfilled ==
    (~mg.dry_run /\ mg.pc = "tags" /\ mg'.pc = "fetch") =>
       \A n \in 1..Len(mg.rows) : ~Unbackfilled(mg', mg.rows[n].id)

C15_Decreases ==
    (~mg.dry_run /\ MgRunning(mg) /\ MgRunning(mg')) =>
       LexLess(Measure(mg'), Measure(mg))

SentinelLinks(m, b) ==
    {n \in 1..Len(m.bookmark_tags) :
        /\ m.bookmark_tags[n].bookmark_id = b
        /\ m.tags[m.bookmark_tags[n].tag_id].normalized_label = sentinel_label}

SentinelDone(m, b) == SentinelLinks(m, b) /= {} /\ m.bookmarks[b].simhash64 /= None

(***************************************************************************)
(* C16  A bookmark without label never has more than one sentinel link,    *)
(* and has exactly one after backfill_tags_for_chunk handled it, also when *)
(* it is handled a second and a third time; once it has the link and a     *)
(* fingerprint it keeps both and no SELECT of the chunk loop returns it.   *)
(***************************************************************************)
C16_OneSentinel ==
    \A b \in 1..Len(mg.bookmarks) :
       TagLabels(mg, b) = << >> =>
          LET user_id == mg.bookmarks[b].user_id
              once == _ensure_sentinel_tag_and_link(mg, user_id, b)
              twice == _ensure_sentinel_tag_and_link(once, user_id, b)
          IN  /\ Cardinality(SentinelLinks(mg, b)) <= 1
              /\ Cardinality(SentinelLinks(once, b)) = 1
              /\ Cardinality(SentinelLinks(twice, b)) = 1
              /\ twice.bookmark_tags = once.bookmark_tags /\ twice.tags = once.tags

C16_Step ==
    /\ (/\ ~mg.dry_run /\ mg.pc = "tags" /\ mg'.pc \in {"tags", "fetch"}
        /\ TagLabels(mg, mg.rows[mg.i].id) = << >>
        /\ ~mg.rows[mg.i].has_bookmark_tags)
          => Cardinality(SentinelLinks(mg', mg.rows[mg.i].id)) = 1
    /\ (mg.pc = "fetch" /\ mg'.pc = "columns")
          => \A n \in 1..Len(mg'.rows) : ~SentinelDone(mg, mg'.rows[n].id)
    /\ \A b \in 1..Len(mg.bookmarks) : SentinelDone(mg, b) => SentinelDone(mg', b)

C16_SentinelOnce == [](C16_OneSentinel) /\ [][C16_Step]_vars

\* The chunk loop has fetched rows for an owner one of whose bookmarks got
\* its sentinel link and its fingerprint in an earlier call.
C16_Witness ==
    /\ mg.pc = "columns" /\ mg.runs = 2
    /\ \E b \in BookmarksOf(mg.users[mg.u]) :
          /\ TagLabels(mg, b) = << >>
          /\ SentinelDone(mg, b)
          /\ \A n \in 1..Len(mg.rows) : mg.rows[n].id /= b

\* The tables and the checkpoint file.
Stored(m) == <<m.bookmarks, m.tags, m.bookmark_tags, m.dup_groups,
               m.bookmark_dup_map, m.topics, m.dup_group_topics, m.checkpoint>>

(***************************************************************************)
(* C17  An exception in a statement of a chunk or of the two builds ends   *)
(* the call as raised: that step processes no further owner and leaves    *)
(* the checkpoint alone; the checkpoint has not changed since the failing  *)
(* owner was started; and nothing is processed or written after it until   *)
(* the script is called again.                                             *)
(***************************************************************************)
C17_Step ==
    /\ (mg'.faults > mg.faults /\ mg'.pc /= "killed") =>
          /\ mg'.pc = "raised"
          /\ mg'.visited = mg.visited /\ mg'.u = mg.u
          /\ mg'.checkpoint = mg.checkpoint
    /\ (mg.pc \in {"fetch"} \cup ChunkPcs \cup BuildPcs) =>
          /\ mg'.checkpoint = mg.checkpoint
          /\ mg'.visited = mg.visited /\ mg'.u = mg.u
    /\ (mg.pc = "raised" /\ mg'.runs = mg.runs) =>
          /\ mg'.pc = "raised"
          /\ mg'.visited = mg.visited
          /\ Stored(mg') = Stored(mg) \/ Len(mg'.bookmarks) > Len(mg.bookmarks)
          /\ mg'.checkpoint = mg.checkpoint

C17_RaiseAborts == [][C17_Step]_vars

\* The first of two owners raised: the checkpoint is as it was before the
\* call, and the second owner, who has a bookmark, was never visited.
C17_Witness ==
    /\ mg.pc = "raised" /\ ~mg.dry_run /\ Len(mg.users) = 2
    /\ mg.u = 1 /\ mg.visited = <<mg.users[1]>> /\ mg.checkpoint = None
    /\ BookmarksOf(mg.users[2]) /= {}

RECURSIVE BackfillTagsChunk(_, _, _)
\* backfill_tags_for_chunk(conn, rows, dry_run = False) from the row n on.
BackfillTagsChunk(m, rows, n) ==
    IF n > Len(rows) THEN m
    ELSE IF rows[n].has_bookmark_tags THEN BackfillTagsChunk(m, rows, n + 1)
    ELSE BackfillTagsChunk(BackfillTags(m, rows[n].user_id, rows[n].id, 1), rows, n + 1)

RECURSIVE MapGroup(_, _, _, _)
\* "for bid in bookmark_ids" of build_dup_groups_for_user from bookmark k on.
MapGroup(bookmark_dup_map, ids, dup_group_id, k) ==
    IF k > Len(ids) THEN bookmark_dup_map
    ELSE MapGroup(InsertMap(bookmark_dup_map, ids[k], dup_group_id), ids, dup_group_id, k + 1)

\* No two tag rows of one (owner, label), no two links of one (bookmark,
\* tag), no two memberships of one (bookmark, dup_group).
NoDuplicateRow(tags, bookmark_tags, bookmark_dup_map) ==
    /\ \A a, b \in 1..Len(tags) :
          (tags[a].user_id = tags[b].user_id
           /\ tags[a].normalized_label = tags[b].normalized_label) => a = b
    /\ \A a, b \in 1..Len(bookmark_tags) :
          (bookmark_tags[a].bookmark_id = bookmark_tags[b].bookmark_id
           /\ bookmark_tags[a].tag_id = bookmark_tags[b].tag_id) => a = b
    /\ \A a, b \in 1..Len(bookmark_dup_map) :
          (bookmark_dup_map[a].bookmark_id = bookmark_dup_map[b].bookmark_id
           /\ bookmark_dup_map[a].dup_group_id = bookmark_dup_map[b].dup_group_id) => a = b

(***************************************************************************)
(* C18  The tables never hold two tag rows of one (owner, label), two tag  *)
(* links of one (bookmark, tag) or two memberships of one (bookmark,       *)
(* dup_group); and where a writing call is about to run                    *)
(* backfill_tags_for_chunk on its rows, or the membership loop on a group, *)
(* running it twice on the same rows leaves the same number of rows as     *)
(* running it once, without duplicate.                                     *)
(***************************************************************************)
C18_SecondPassAddsNoRow ==
    /\ NoDuplicateRow(mg.tags, mg.bookmark_tags, mg.bookmark_dup_map)
    /\ (~mg.dry_run /\ mg.pc = "tags" /\ mg.i = 1 /\ mg.k = 1) =>
          LET once == BackfillTagsChunk(mg, mg.rows, 1)
              twice == BackfillTagsChunk(once, mg.rows, 1)
          IN  /\ Len(twice.tags) = Len(once.tags)
              /\ Len(twice.bookmark_tags) = Len(once.bookmark_tags)
              /\ NoDuplicateRow(twice.tags, twice.bookmark_tags, mg.bookmark_dup_map)
    /\ (~mg.dry_run /\ mg.pc = "dup_map" /\ mg.k = 1) =>
          LET ids == mg.groups[mg.g].ids
              once == MapGroup(mg.bookmark_dup_map, ids, mg.dup_group_id, 1)
              twice == MapGroup(once, ids, mg.dup_group_id, 1)
          IN  /\ Len(twice) = Len(once)
              /\ NoDuplicateRow(mg.tags, mg.bookmark_tags, twice)

\* A second call is in the membership loop of a group of two bookmarks whose
\* memberships the first call inserted, after a chunk with a repeated label.
C18_Witness ==
    /\ ~mg.dry_run /\ mg.pc = "dup_map" /\ mg.runs = 2
    /\ Len(mg.groups[mg.g].ids) = 2
    /\ \A k \in 1..2 :
          MapRows(mg.bookmark_dup_map, mg.groups[mg.g].ids[k], mg.dup_group_id) /= {}
    /\ Len(mg.bookmark_tags) >= 2

(***************************************************************************)
(* C19  No statement of a dry run changes a table (bookmarks, tags,        *)
(* bookmark_tags, dup_groups, bookmark_dup_map, topics, dup_group_topics)  *)
(* or the checkpoint file.                                                 *)
(***************************************************************************)
C19_Step == (mg.dry_run /\ MgRunning(mg)) => Stored(mg') = Stored(mg)

C19_DryRunWritesNothing == [][C19_Step]_vars

\* A dry run went through a chunk of two rows, one of them with labels, and
\* is back at the SELECT with both bookmarks as they were.
C19_Witness ==
    /\ mg.dry_run /\ mg.pc = "fetch" /\ Len(mg.rows) = 2
    /\ \A n \in 1..2 : /\ mg.bookmarks[mg.rows[n].id].simhash64 = None
                       /\ ~HasBookmarkTags(mg, mg.rows[n].id)
    /\ \E n \in 1..2 : TagLabels(mg, mg.rows[n].id) /= << >>

(***************************************************************************)
(* Overlapping invocations of run_batch_job                                *)
(*                                                                         *)
(* POST /jobs/batch adds run_batch_job as a background task and nothing    *)
(* serializes two requests: an invocation may start while another one is   *)
(* between two awaits (here: while at most one other is running).  The     *)
(* store is as earlier invocations left it: the first owner is one         *)
(* embedded bookmark short of CLUSTERING_MIN_BOOKMARKS and has pending     *)
(* bookmarks, the bookmarks of the other owners failed to embed.  A        *)
(* terminated process adds no state of the store to those of the prefixes  *)
(* of the interleavings, so terminations are left to Spec.                 *)
(***************************************************************************)
TriggerOverlap(j) ==
    /\ job[j].pc = "idle"
    /\ \A h \in Jobs : h < j => job[h].pc /= "idle"
    /\ Cardinality({h \in Jobs : Running(h)}) <= 1
    /\ job' = [job EXCEPT ![j] = [IdleJob EXCEPT !.pc = "embed_fetch"]]
    /\ runs' = runs + 1
    /\ UNCHANGED <<bookmarks, clusters, faults, kills, lib, snap>>

InitOverlap ==
    /\ bookmarks = [i \in Items |->
                       IF OwnerOf(i) /= 1
                       THEN [NewBookmark(i) EXCEPT !.status = "failed"]
                       ELSE IF i < CLUSTERING_MIN_BOOKMARKS
                       THEN [NewBookmark(i) EXCEPT !.status = "embedded",
                                                   !.embedding = VecOf(i),
                                                   !.embedded_at = 0]
                       ELSE NewBookmark(i)]
    /\ clusters = {}
    /\ job = [j \in Jobs |-> IdleJob]
    /\ runs = 0
    /\ faults = 0
    /\ kills = 0
    /\ lib = [o \in Owners |-> "hdbscan"]
    /\ snap = [j \in Jobs |-> NoSnap]
    /\ OthersIdle

NextOverlap ==
    \/ \E j \in Jobs : TriggerOverlap(j) /\ UNCHANGED <<cs, dd, mg>>
    \/ \E j \in Jobs : EmbedFetch(j) /\ UNCHANGED <<cs, dd, mg>>
    \/ \E j \in Jobs : EmbedFetchRaises(j) /\ UNCHANGED <<cs, dd, mg>>
    \/ \E j \in Jobs : EmbedWrite(j) /\ UNCHANGED <<cs, dd, mg>>
    \/ \E j \in Jobs : EmbedWriteRaises(j) /\ UNCHANGED <<cs, dd, mg>>
    \/ \E j \in Jobs : ClusterEnum(j) /\ UNCHANGED <<cs, dd, mg>>
    \/ \E j \in Jobs : ClusterEnumRaises(j) /\ UNCHANGED <<cs, dd, mg>>
    \/ \E j \in Jobs : ClusterFetch(j) /\ UNCHANGED <<cs, dd, mg>>
    \/ \E j \in Jobs : ClusterUpdate(j) /\ UNCHANGED <<cs, dd, mg>>
    \/ \E j \in Jobs : ClusterDelete(j) /\ UNCHANGED <<cs, dd, mg>>
    \/ \E j \in Jobs : ClusterInsert(j) /\ UNCHANGED <<cs, dd, mg>>
    \/ \E j \in Jobs : ClusterUserRaises(j) /\ UNCHANGED <<cs, dd, mg>>

SpecOverlap == InitOverlap /\ [][NextOverlap]_vars

(***************************************************************************)
(* C21  In every state that overlapping invocations can reach, a bookmark  *)
(* with status embedded has a vector and an embedded_at.                   *)
(***************************************************************************)
C21_EmbeddedHasVector ==
    \A i \in Items :
       bookmarks[i].status = "embedded" =>
          bookmarks[i].embedding /= NoVec /\ bookmarks[i].embedded_at /= None

\* Two invocations fetched the same pending bookmark and both wrote it as
\* embedded, the second while the first was already clustering.
C21_Witness ==
    \E i \in Items :
       /\ bookmarks[i].status = "embedded" /\ bookmarks[i].embedded_at = 2
       /\ i \in Range(job[2].rows) /\ job[2].pc = "embed_write"
       /\ job[1].processed >= 1 /\ job[1].pc \in ClusterPcs

\* A step writes cluster data of the owner: a cluster field of one of the
\* owner's bookmarks or one of the owner's rows of clusters.
WritesClusterData(o) ==
    \/ RowsOfIn(clusters', o) /= RowsOf(o)
    \/ \E i \in Items :
          /\ bookmarks[i].user_id = o
          /\ \/ bookmarks'[i].cluster_id /= bookmarks[i].cluster_id
             \/ bookmarks'[i].cluster_label /= bookmarks[i].cluster_label

(***************************************************************************)
(* C22  The enumeration keeps the owners with at least                     *)
(* CLUSTERING_MIN_BOOKMARKS embedded bookmarks with a vector; cluster_user *)
(* goes on to its writes only when its own fetch returned that many rows,   *)
(* and returns without any write when it returned fewer, also for an owner *)
(* the enumeration had kept; every write of an owner's cluster data is a   *)
(* step of an invocation whose fetch for that owner returned at least      *)
(* CLUSTERING_MIN_BOOKMARKS rows.                                          *)
(***************************************************************************)
C22_Step ==
    /\ \A j \in Jobs :
          /\ (job[j].pc = "cluster_enum" /\ job'[j].pc = "cluster_fetch") =>
                \A k \in 1..Len(job'[j].user_rows) :
                   Len(FetchEmbedded(job'[j].user_rows[k])) >= CLUSTERING_MIN_BOOKMARKS
          /\ (job[j].pc = "cluster_fetch" /\ job'[j].pc = "cluster_update") =>
                /\ job'[j].bookmark_ids = FetchEmbedded(CurrentUser(job[j]))
                /\ Len(job'[j].bookmark_ids) >= CLUSTERING_MIN_BOOKMARKS
          /\ (/\ job[j].pc = "cluster_fetch" /\ job'[j] /= job[j]
              /\ Len(FetchEmbedded(CurrentUser(job[j]))) < CLUSTERING_MIN_BOOKMARKS) =>
                /\ bookmarks' = bookmarks /\ clusters' = clusters
                /\ \/ job'[j].pc = "done"
                   \/ job'[j].pc = "cluster_fetch" /\ job'[j].u = job[j].u + 1
    /\ \A o \in Owners :
          WritesClusterData(o) =>
             \E j \in Jobs :
                /\ job'[j] /= job[j]
                /\ job[j].pc \in {"cluster_update", "cluster_delete", "cluster_insert"}
                /\ CurrentUser(job[j]) = o
                /\ Len(job[j].bookmark_ids) >= CLUSTERING_MIN_BOOKMARKS
                /\ \A k \in 1..Len(job[j].bookmark_ids) :
                      bookmarks[job[j].bookmark_ids[k]].user_id = o

C22_OnlyEligibleOwnersWritten == [][C22_Step]_vars

\* An invocation enumerated the first owner, whose fifth embedded bookmark
\* an overlapping invocation then set to failed: cluster_user returned at
\* its fetch and the owner has no cluster data.
C22_Witness ==
    \E j \in Jobs :
       /\ job[j].pc = "done" /\ job[j].user_rows = <<1>>
       /\ job[j].stats.users_clustered = 1 /\ job[j].stats.errors = << >>
       /\ Len(FetchEmbedded(1)) < CLUSTERING_MIN_BOOKMARKS
       /\ RowsOf(1) = {}
       /\ \A i \in Items : bookmarks[i].cluster_id = None

ClusteringPcs == {"cluster_enum"} \cup ClusterPcs

(***************************************************************************)
(* C23  An invocation enters its clustering phase only at the owner        *)
(* enumeration, in the step in which the fetch of the embedding loop       *)
(* found no pending bookmark, and never goes back to the embedding phase;  *)
(* a step that changes a cluster field of a bookmark or the clusters table *)
(* is a step of an invocation that is in cluster_user.                     *)
(***************************************************************************)
C23_Step ==
    /\ \A j \in Jobs :
          /\ (job[j].pc \notin ClusteringPcs /\ job'[j].pc \in ClusteringPcs) =>
                /\ job[j].pc = "embed_fetch" /\ job'[j].pc = "cluster_enum"
                /\ FetchPending(EMBEDDING_BATCH_SIZE) = << >>
          /\ job[j].pc \in ClusteringPcs =>
                job'[j].pc \in ClusteringPcs \cup {"done", "killed"}
          /\ (job[j].pc \in {"embed_fetch", "embed_write"} /\ job'[j] /= job[j]) =>
                /\ clusters' = clusters
                /\ \A i \in Items :
                      /\ bookmarks'[i].cluster_id = bookmarks[i].cluster_id
                      /\ bookmarks'[i].cluster_label = bookmarks[i].cluster_label
    /\ (\E o \in Owners : WritesClusterData(o)) =>
          \E j \in Jobs : job'[j] /= job[j] /\ job[j].pc \in ClusterPcs

C23_PhasesSequential == [][C23_Step]_vars

\* An invocation that embedded bookmarks, left one pending because its
\* write raised and fetched a second time, is writing cluster fields.
C23_Witness ==
    \E j \in Jobs :
       /\ job[j].pc = "cluster_update" /\ job[j].k > 1
       /\ job[j].processed >= CLUSTERING_MIN_BOOKMARKS
       /\ job[j].failed >= 2
       /\ faults = 1
       /\ FetchPending(EMBEDDING_BATCH_SIZE) = << >>

(***************************************************************************)
(* process_pending_embeddings on a queue of N pending bookmarks           *)
(*                                                                         *)
(* One invocation, no ingestion while it runs; the embedding call of a     *)
(* batch may fail (every bookmark of the batch is then set to failed) and  *)
(* a write may raise, which leaves its bookmark pending.                   *)
(***************************************************************************)
PendingCounts == {0, 1, 50, 51, 120}

InitEmbed ==
    /\ \E n \in PendingCounts : bookmarks = [i \in 1..n |-> NewBookmark(i)]
    /\ clusters = {}
    /\ job = [j \in Jobs |-> IdleJob]
    /\ runs = 0
    /\ faults = 0
    /\ kills = 0
    /\ lib = [o \in Owners |-> "hdbscan"]
    /\ snap = [j \in Jobs |-> NoSnap]
    /\ OthersIdle

NextEmbed ==
    \/ \E j \in Jobs : Trigger(j) /\ UNCHANGED <<cs, dd, mg>>
    \/ \E j \in Jobs : EmbedFetch(j) /\ UNCHANGED <<cs, dd, mg>>
    \/ \E j \in Jobs : EmbedWrite(j) /\ UNCHANGED <<cs, dd, mg>>
    \/ \E j \in Jobs : EmbedWriteRaises(j) /\ UNCHANGED <<cs, dd, mg>>

SpecEmbed == InitEmbed /\ [][NextEmbed]_vars

\* ceil(n / d)
CeilDiv(n, d) == (n + d - 1) \div d

RECURSIVE BatchSizes(_, _)
\* 50, 50, ..., and the rest: the sizes of the batches of n rows.
BatchSizes(n, limit) ==
    IF n <= 0 THEN << >> ELSE <<Min(n, limit)>> \o BatchSizes(n - limit, limit)

\* The embedding loop of the invocation has ended and none of its writes
\* raised.
LoopEndedWithoutRaise(j) ==
    /\ job[j].pc = "cluster_enum"
    /\ job[j].processed + job[j].failed = Len(bookmarks)

(***************************************************************************)
(* C24 (as stated)  With N pending bookmarks and no failing write, the     *)
(* embedding loop has performed exactly ceil(N/50) fetches when it ends.   *)
(***************************************************************************)
C24_CeilFetches ==
    \A j \in Jobs :
       LoopEndedWithoutRaise(j) =>
          Len(job[j].fetches) = CeilDiv(Len(bookmarks), EMBEDDING_BATCH_SIZE)

(***************************************************************************)
(* C24 (amended)  With N pending bookmarks and no failing write, the       *)
(* embedding loop performs ceil(N/50) fetches that return rows, 50 each    *)
(* and the rest in the last (50, 50, 20 for N = 120), and then one more    *)
(* fetch, which returns no row and ends the loop.                          *)
(***************************************************************************)
C24_CeilFetchesThenEmpty ==
    \A j \in Jobs :
       LoopEndedWithoutRaise(j) =>
          /\ job[j].fetches = BatchSizes(Len(bookmarks), EMBEDDING_BATCH_SIZE) \o <<0>>
          /\ Len(job[j].fetches) = CeilDiv(Len(bookmarks), EMBEDDING_BATCH_SIZE) + 1

\* The loop has ended on 120 bookmarks after the fetches 50, 50, 20, 0; the
\* embedding call of one batch had failed.
C24_Witness ==
    /\ Len(bookmarks) = 120
    /\ LoopEndedWithoutRaise(1)
    /\ job[1].fetches = <<50, 50, 20, 0>>
    /\ job[1].failed >= 50

(***************************************************************************)
(* C25: re-running build_dup_groups_for_user on unchanged fingerprints     *)
(***************************************************************************)
\* build_dup_groups_for_user has returned to run_migration, which holds its
\* result in n_dg.
DupGroupsReturned == mg.pc = "topics_root"

\* The call that returned left dup_groups and bookmark_dup_map as it found
\* them (the script only ever appends rows to the two tables).
NoRowWritten == mg.before = <<mg.dup_groups, mg.bookmark_dup_map>>

\* The groups of the owner whose call has returned.
GroupsNow == group_by_simhash(FingerprintedRows(mg, mg.users[mg.u], Len(mg.bookmarks)))

\* C25 (as stated): a call of build_dup_groups_for_user for an owner whose
\* fingerprinted bookmarks are those a completed writing call left inserts no
\* dup_groups row and no bookmark_dup_map row and returns 0.
C25_RerunReportsZero ==
    (DupGroupsReturned /\ mg.unchanged) => (NoRowWritten /\ mg.n_dg = 0)

\* C25 (amended): such a call inserts no dup_groups row and no
\* bookmark_dup_map row; it returns 0 when it is a writing call, and the
\* number of the owner's groups when it is a dry run.
C25_RerunIsNoOp ==
    (DupGroupsReturned /\ mg.unchanged) =>
        /\ NoRowWritten
        /\ mg.n_dg = IF mg.dry_run THEN Len(GroupsNow) ELSE 0

\* A writing call has returned for an owner with two fingerprinted bookmarks
\* that an earlier writing call had grouped already.
C25_Witness ==
    /\ DupGroupsReturned /\ mg.unchanged /\ ~mg.dry_run
    /\ Cardinality(FpIds(mg, mg.users[mg.u])) = 2
    /\ DupGroupsOfUser(mg.users[mg.u]) /= {}
    /\ mg.n_dg = 0

(***************************************************************************)
(* C26: the stored size and representative of a dup_group                  *)
(***************************************************************************)
\* The bookmarks mapped to the dup_group n in bookmark_dup_map.
MembersOf(n) ==
    {mg.bookmark_dup_map[k].bookmark_id :
        k \in {l \in 1..Len(mg.bookmark_dup_map) : mg.bookmark_dup_map[l].dup_group_id = n}}

\* C26: when a writing build_dup_groups_for_user has returned for an owner,
\* every dup_groups row of the owner stores as size the number of its
\* membership rows and as representative its most recently created member
\* (created_at grows with the id).
C26_SizeAndRepresentative ==
    (DupGroupsReturned /\ ~mg.dry_run) =>
        \A n \in DupGroupsOfUser(mg.users[mg.u]) :
           /\ mg.dup_groups[n].size = Cardinality(MembersOf(n))
           /\ mg.dup_groups[n].representative_bookmark_id \in MembersOf(n)
           /\ \A b \in MembersOf(n) : b <= mg.dup_groups[n].representative_bookmark_id

(***************************************************************************)
(* C27: the representative of a group                                      *)
(***************************************************************************)
\* created_at of the input row with the id b (row k has the id k).
CreatedAt(b) == dd.bookmark_rows[b].created_at

\* C27: in every group group_by_simhash returns, the representative is a
\* member; when a member has a created_at, it has the most recent created_at
\* of the members and is the first row of the input among the members with
\* that created_at; a representative without created_at is chosen only when
\* no member has one (and is then the first row of the input).
C27_RepresentativeIsNewest ==
    dd.pc = "done" =>
        \A g \in 1..Len(dd.result) :
           LET members == Range(dd.result[g].ids)
               r == dd.result[g].representative_id
               dated == {b \in members : CreatedAt(b) /= None}
           IN  /\ r \in members
               /\ dated /= {} =>
                     /\ r \in dated
                     /\ \A b \in dated : CreatedAt(b) <= CreatedAt(r)
                     /\ \A b \in dated : CreatedAt(b) = CreatedAt(r) => r <= b
               /\ dated = {} => \A b \in members : r <= b

\* A group of three rows, the first without created_at and the other two
\* with the same one: the second row is the representative.
C27_Witness ==
    /\ dd.pc = "done"
    /\ \E g \in 1..Len(dd.result) :
          /\ Range(dd.result[g].ids) = {1, 2, 3}
          /\ CreatedAt(1) = None /\ CreatedAt(2) = 2 /\ CreatedAt(3) = 2
          /\ dd.result[g].representative_id = 2

(***************************************************************************)
(* C28: the components of the cosine-threshold fallback                    *)
(***************************************************************************)
\* The fallback has returned the labels of the call.
FallbackReturned == cs.pc = "returned" /\ cs.ran = {"primary", "fallback"}

\* The pairs of items that a chain of similar items joins.
Connected(embeddings) ==
    LET F == 1..Len(embeddings)
    IN  Chains({q \in F \X F : q[1] = q[2] \/ Similar(embeddings[q[1]], embeddings[q[2]])}, F)

\* The smallest index of an item with the label of item i.
SmallestOf(labels, i) ==
    CHOOSE m \in 1..Len(labels) :
       labels[m] = labels[i] /\ \A k \in 1..(m - 1) : labels[k] /= labels[i]

\* C28: the labels the cosine-threshold fallback returns are the connected
\* components of the graph that joins two different items of similarity
\* >= 0.7: two items have the same id iff a chain joins them, the ids are
\* 0..k-1 in the order of the components' smallest item index, and no item
\* keeps -1.
C28_FallbackComponents ==
    FallbackReturned =>
        LET e == cs.embeddings_list
            l == cs.labels
            n == Len(e)
            ids == {l[i] : i \in 1..n}
        IN  /\ Len(l) = n
            /\ \A i \in 1..n : l[i] /= -1
            /\ \A c \in {Connected(e)} :
                  \A i, j \in 1..n : (l[i] = l[j]) <=> (<<i, j>> \in c)
            /\ ids = 0..(Cardinality(ids) - 1)
            /\ \A i, j \in 1..n :
                  SmallestOf(l, i) < SmallestOf(l, j) => l[i] < l[j]

\* Items 1 and 2 are not similar but joined through item 4; item 3 is alone
\* and gets the second id.
C28_Witness ==
    /\ FallbackReturned
    /\ cs.embeddings_list = <<0, 2, 6, 1>>
    /\ cs.labels = <<0, 0, 1, 0>>

(***************************************************************************)
(* generate_cluster_labels on its own: cs holds the arguments of one call  *)
(* and the dict it returns.  A string is the list of its pieces.           *)
(***************************************************************************)
MaxMembers == 3

\* The tags columns of the members.
TagLists == {<< >>, <<"ai">>, <<"ai", "ml">>, <<"db", "ai">>,
             <<"go", "js", "py", "ai", "ml", "db">>}

RECURSIVE join(_, _)
\* sep.join(parts)
join(sep, parts) ==
    IF parts = << >> THEN << >>
    ELSE IF Len(parts) = 1 THEN <<parts[1]>>
    ELSE <<parts[1], sep>> \o join(sep, Tail(parts))

RECURSIVE str(_)
\* str(n) of an n >= 0: the decimal digits.
str(n) ==
    LET digit == <<"0", "1", "2", "3", "4", "5", "6", "7", "8", "9">>[(n % 10) + 1]
    IN  IF n < 10 THEN <<digit>> ELSE Append(str(n \div 10), digit)

\* f"Cluster {cluster_id}" and ", ".join(top_tags)
LabelText(label) ==
    IF label.kind = "default" THEN <<"Cluster ">> \o str(label.id)
    ELSE join(", ", label.tags)

GlCall ==
    /\ cs.pc = "labels_call"
    /\ cs' = [cs EXCEPT !.pc = "labels_returned",
                        !.labels = generate_cluster_labels(cs.cluster_assignments,
                                                           cs.tags_list, TOP_N)]
    /\ UNCHANGED <<batchVars, dd, mg>>

InitLabels ==
    /\ BatchIdle
    /\ \E n \in 0..MaxMembers :
          \E a \in [1..n -> {-1, 0, 1}], t \in [1..n -> TagLists] :
             cs = [pc |-> "labels_call", cluster_assignments |-> a,
                   tags_list |-> t, labels |-> << >>]
    /\ dd = DdIdle
    /\ mg = MgIdle

NextLabels == GlCall

SpecLabels == InitLabels /\ [][NextLabels]_vars

(***************************************************************************)
(* C29: the labels of the clusters                                         *)
(***************************************************************************)
\* The tags of the members of cluster c, in the order of the members.
MemberTags(c) ==
    Flatten([k \in 1..Len(cs.cluster_assignments) |->
                IF cs.cluster_assignments[k] = c THEN cs.tags_list[k] ELSE << >>])

\* Tag a comes before tag b: more frequent, or as frequent and seen first.
RanksBefore(tags, a, b) ==
    \/ Count(tags, a) > Count(tags, b)
    \/ Count(tags, a) = Count(tags, b) /\ FirstPos(tags, a) < FirstPos(tags, b)

\* top is the list of the (at most) TOP_N first tags of tags in that order.
IsTopTags(top, tags) ==
    /\ Len(top) = Min(TOP_N, Cardinality(Range(tags)))
    /\ \A p \in 1..Len(top) : top[p] \in Range(tags)
    /\ \A p, q \in 1..Len(top) : p < q => RanksBefore(tags, top[p], top[q])
    /\ \A b \in Range(tags) \ Range(top) :
          \A p \in 1..Len(top) : RanksBefore(tags, top[p], b)

\* C29: generate_cluster_labels returns a label for exactly the cluster ids
\* >= 0 of the assignment; the label of a cluster whose members have a tag is
\* its up to 5 most frequent tags in descending frequency, ties in first-seen
\* order, joined by ", " (ai, ai, ml gives "ai, ml"), and the label of a
\* cluster whose members have no tag is "Cluster {id}".
C29_LabelsOfClusters ==
    cs.pc = "labels_returned" =>
        /\ DOMAIN cs.labels =
              {c \in Range(cs.cluster_assignments) : c >= 0}
        /\ \A c \in DOMAIN cs.labels :
              \A tags \in {MemberTags(c)} :
                 /\ tags = << >> => LabelText(cs.labels[c]) = <<"Cluster ">> \o str(c)
                 /\ tags /= << >> =>
                       \E top \in {cs.labels[c].tags} :
                          /\ cs.labels[c].kind = "tags"
                          /\ IsTopTags(top, tags)
                          /\ LabelText(cs.labels[c]) = join(", ", top)
                 /\ tags = <<"ai", "ai", "ml">> =>
                       LabelText(cs.labels[c]) = <<"ai", ", ", "ml">>

\* Cluster 0 has the tags ai, ai, ml; the one member of cluster 1 has six
\* tags, of which the last is cut off.
C29_Witness ==
    /\ cs.pc = "labels_returned"
    /\ cs.cluster_assignments = <<0, 1, 0>>
    /\ cs.tags_list = << <<"ai">>, <<"go", "js", "py", "ai", "ml", "db">>,
                         <<"ai", "ml">> >>
    /\ LabelText(cs.labels[0]) = <<"ai", ", ", "ml">>
    /\ cs.labels[1].tags = <<"go", "js", "py", "ai", "ml">>

\* A member is noise and the only member of cluster 1 has no tag.
C29_WitnessUntagged ==
    /\ cs.pc = "labels_returned"
    /\ cs.cluster_assignments = <<-1, 1, 0>>
    /\ cs.tags_list = << <<"ai">>, << >>, <<"db", "ai">> >>
    /\ DOMAIN cs.labels = {0, 1}
    /\ LabelText(cs.labels[1]) = <<"Cluster ", "1">>

(***************************************************************************)
(* C30: fewer than five vectors                                            *)
(***************************************************************************)
\* reducer.fit_transform and clusterer.fit_predict were called: the primary
\* tier ran, its imports succeeded and it had at least five vectors.
ProjectionRan ==
    /\ "primary" \in cs.ran
    /\ cs.mode \notin {"import_error", "both_fail"}
    /\ Len(cs.embeddings_list) >= 5

\* C30: for 1 to 4 vectors the clusterer returns id 0 for every item, and
\* neither the projection nor the density clustering has run; for no vector
\* it returns the empty list.
C30_SmallInputAllZero ==
    cs.pc = "returned" =>
        LET n == Len(cs.embeddings_list)
        IN  /\ n = 0 => cs.labels = << >>
            /\ n \in 1..4 => cs.labels = Zeros(n) /\ ~ProjectionRan

(***************************************************************************)
(* hamming_distance on stored fingerprints: dd holds two unsigned          *)
(* fingerprints, their signed stored forms and what the functions return.  *)
(***************************************************************************)
\* The unsigned fingerprints of the width FpBits.
Fingerprint == 0..(Pow2(FpBits) - 1)

\* The two fingerprints are written to the BIGINT column.
HdStore ==
    /\ dd.pc = "hd_store"
    /\ dd' = [dd EXCEPT !.pc = "hd_read",
                        !.a = _simhash_to_bigint(dd.h),
                        !.b = _simhash_to_bigint(dd.g)]
    /\ UNCHANGED <<batchVars, cs, mg>>

\* The stored values are read back and compared.
HdDistance ==
    /\ dd.pc = "hd_read"
    /\ dd' = [dd EXCEPT !.pc = "hd_done",
                        !.back = _to_uint64(dd.a),
                        !.ab = hamming_distance(dd.a, dd.b),
                        !.ba = hamming_distance(dd.b, dd.a),
                        !.aa = hamming_distance(dd.a, dd.a)]
    /\ UNCHANGED <<batchVars, cs, mg>>

InitHamming ==
    /\ BatchIdle
    /\ cs = CsIdle
    /\ mg = MgIdle
    /\ \E h \in Fingerprint, g \in Fingerprint :
          dd = [pc |-> "hd_store", h |-> h, g |-> g, a |-> 0, b |-> 0,
                back |-> 0, ab |-> 0, ba |-> 0, aa |-> 0]

NextHamming ==
    \/ HdStore
    \/ HdDistance

SpecHamming == InitHamming /\ [][NextHamming]_vars

(***************************************************************************)
(* C31: the distance of stored fingerprints                                *)
(***************************************************************************)
\* Bit i of the unsigned value x.
BitOf(x, i) == (x \div Pow2(i)) % 2

\* The number of bit positions in which the unsigned h and g differ.
DifferingBits(h, g) == Cardinality({i \in 0..(FpBits - 1) : BitOf(h, i) /= BitOf(g, i)})

\* C31: for unsigned fingerprints h and g with the stored forms a and b,
\* hamming_distance(a, a) = 0, hamming_distance(a, b) = hamming_distance(b, a),
\* hamming_distance(a, b) is the number of bits in which h and g differ, the
\* stored form is in the signed range, and _to_uint64(a) = h.
C31_DistanceOnUnsigned ==
    dd.pc = "hd_done" =>
        /\ dd.a \in (0 - Pow2(FpBits - 1))..(Pow2(FpBits - 1) - 1)
        /\ dd.aa = 0
        /\ dd.ab = dd.ba
        /\ dd.ab = DifferingBits(dd.h, dd.g)
        /\ dd.back = dd.h

\* A fingerprint with the top bit set is stored as a negative number, the
\* other as itself; they differ in the top bit and one more.
C31_Witness ==
    /\ dd.pc = "hd_done"
    /\ dd.h = Pow2(FpBits - 1) + 1 /\ dd.g = 3
    /\ dd.a < 0 /\ dd.b = 3
    /\ dd.ab = 2 /\ dd.back = dd.h

(***************************************************************************)
(* compute_simhash: dd holds the text of one call (a string is the list    *)
(* of its characters), the locals and the result.                          *)
(***************************************************************************)
MaxText == 7
SHINGLE_SIZE == 3

\* The characters of the texts: two letters, one of them also in upper case,
\* and the blank.
Chars == {"a", "b", "A", " "}

\* str.lower() of one character ("VIII" stands for the one character U+2167,
\* a cased numeral, and "viii" for its lower case U+2177).
lower(c) == IF c = "A" THEN "a" ELSE IF c = "VIII" THEN "viii" ELSE c

RECURSIVE split(_)
\* text.split(): the maximal runs of characters that are not blank.
split(s) ==
    IF s = << >> THEN << >>
    ELSE IF Head(s) = " " THEN split(Tail(s))
    ELSE LET rest == split(Tail(s))
         IN  IF Len(s) > 1 /\ s[2] /= " "
             THEN <<(<<Head(s)>> \o Head(rest))>> \o Tail(rest)
             ELSE <<(<<Head(s)>>)>> \o rest

RECURSIVE join_words(_)
\* " ".join(words)
join_words(words) ==
    IF words = << >> THEN << >>
    ELSE IF Len(words) = 1 THEN words[1]
    ELSE words[1] \o <<" ">> \o join_words(Tail(words))

\* text.lower().strip(), then re.sub(r"\s+", " ", s); "" for an empty text.
_normalize_text(text) ==
    join_words(split([k \in 1..Len(text) |-> lower(text[k])]))

\* [" ".join(words[i : i + k]) for i in range(len(words) - k + 1)], or the
\* whole text as one shingle when it has fewer than k words.
_word_shingles(text, k) ==
    LET words == split(text)
    IN  IF Len(words) < k
        THEN IF words /= << >> THEN <<join_words(words)>> ELSE << >>
        ELSE [i \in 1..(Len(words) - k + 1) |-> join_words(SubSeq(words, i, i + k - 1))]

RECURSIVE _hash64(_)
\* The first 8 bytes of the SHA-256 of s as an unsigned integer: a fixed
\* function of the characters into the fingerprints.
_hash64(s) ==
    IF s = << >> THEN 5
    ELSE LET code == CASE s[Len(s)] = "a" -> 1 [] s[Len(s)] = "b" -> 2 [] OTHER -> 3
         IN  (_hash64(SubSeq(s, 1, Len(s) - 1)) * 7 + code * 11) % Pow2(FpBits)

\* "for i in range(64): if (h >> i) & 1: v[i] += 1 else: v[i] -= 1"
AddVotes(v, h) ==
    [i \in 0..(FpBits - 1) |-> IF (h \div Pow2(i)) % 2 = 1 THEN v[i] + 1 ELSE v[i] - 1]

RECURSIVE Votes(_, _, _)
\* "for sh in shingles", from the shingle n on.
Votes(v, shingles, n) ==
    IF n > Len(shingles) THEN v
    ELSE Votes(AddVotes(v, _hash64(shingles[n])), shingles, n + 1)

\* Variant that sets the bit of a tied vote as well.
BitsOfVotes_tie(v) ==
    LET Sum[i \in 0..FpBits] ==
            IF i = FpBits THEN 0
            ELSE (IF v[i] >= 0 THEN Pow2(i) ELSE 0) + Sum[i + 1]
    IN  Sum[0]

\* "for i in range(64): if v[i] > 0: result |= 1 << i"
BitsOfVotes(v) ==
    LET Sum[i \in 0..FpBits] ==
            IF i = FpBits THEN 0
            ELSE (IF v[i] > 0 THEN Pow2(i) ELSE 0) + Sum[i + 1]
    IN  Sum[0]

\* normalized = _normalize_text(text); "if not normalized: return 0"
ShNormalize ==
    /\ dd.pc = "sh_call"
    /\ LET normalized == _normalize_text(dd.text)
       IN  dd' = IF normalized = << >>
                 THEN [dd EXCEPT !.pc = "sh_done", !.result = 0]
                 ELSE [dd EXCEPT !.pc = "sh_shingles", !.normalized = normalized]
    /\ UNCHANGED <<batchVars, cs, mg>>

\* shingles = _word_shingles(normalized); "if not shingles: return
\* _hash64(normalized)"; v = [0] * 64
ShShingles ==
    /\ dd.pc = "sh_shingles"
    /\ LET shingles == _word_shingles(dd.normalized, SHINGLE_SIZE)
       IN  dd' = IF shingles = << >>
                 THEN [dd EXCEPT !.pc = "sh_done", !.result = _hash64(dd.normalized)]
                 ELSE [dd EXCEPT !.pc = "sh_votes", !.shingles = shingles,
                                 !.v = [i \in 0..(FpBits - 1) |-> 0]]
    /\ UNCHANGED <<batchVars, cs, mg>>

\* The loop over the shingles.
ShVotes ==
    /\ dd.pc = "sh_votes"
    /\ dd' = [dd EXCEPT !.pc = "sh_result", !.v = Votes(dd.v, dd.shingles, 1)]
    /\ UNCHANGED <<batchVars, cs, mg>>

\* The loop over the bits and "return result & ((1 << 64) - 1)".
ShResult ==
    /\ dd.pc = "sh_result"
    /\ dd' = [dd EXCEPT !.pc = "sh_done", !.result = BitsOfVotes(dd.v) % Pow2(FpBits)]
    /\ UNCHANGED <<batchVars, cs, mg>>

InitSimhash ==
    /\ BatchIdle
    /\ cs = CsIdle
    /\ mg = MgIdle
    /\ \E n \in 0..MaxText :
          \E text \in [1..n -> Chars] :
             dd = [pc |-> "sh_call", text |-> text, normalized |-> << >>,
                   shingles |-> << >>, v |-> << >>, result |-> None]

NextSimhash ==
    \/ ShNormalize
    \/ ShShingles
    \/ ShVotes
    \/ ShResult

SpecSimhash == InitSimhash /\ [][NextSimhash]_vars

(***************************************************************************)
(* C32: the bits of the fingerprint                                        *)
(***************************************************************************)
\* The words of the text of the call, in lower case.
WordsOfText == split([k \in 1..Len(dd.text) |-> lower(dd.text[k])])

\* The vote at bit i: +1 for every shingle whose hash has the bit, -1 for
\* every other shingle.
VoteAt(shingles, i) ==
    Cardinality({n \in 1..Len(shingles) : BitOf(_hash64(shingles[n]), i) = 1})
    - Cardinality({n \in 1..Len(shingles) : BitOf(_hash64(shingles[n]), i) = 0})

\* C32: the result of compute_simhash is a fingerprint of the width; it is 0
\* for a text without a word; for a text of one or two words it is the hash
\* of the normalized text; in general bit i is 1 iff the vote of the word
\* shingles of size 3 at i is strictly positive (a tied vote gives 0).
C32_BitsFollowVotes ==
    dd.pc = "sh_done" =>
        \A words \in {WordsOfText} :
           /\ dd.result \in Fingerprint
           /\ words = << >> => dd.result = 0
           /\ Len(words) \in 1..(SHINGLE_SIZE - 1) =>
                 /\ dd.shingles = <<join_words(words)>>
                 /\ dd.result = _hash64(_normalize_text(dd.text))
           /\ Len(words) >= SHINGLE_SIZE =>
                 /\ Len(dd.shingles) = Len(words) - SHINGLE_SIZE + 1
                 /\ \A n \in 1..Len(dd.shingles) :
                       dd.shingles[n] =
                           join_words(SubSeq(words, n, n + SHINGLE_SIZE - 1))
           /\ words /= << >> =>
                 \A i \in 0..(FpBits - 1) :
                    (BitOf(dd.result, i) = 1) <=> (VoteAt(dd.shingles, i) > 0)

\* A text of four words gives two shingles; at one bit both hashes agree on
\* 1, at another the vote is tied and the bit is 0.
C32_Witness ==
    /\ dd.pc = "sh_done"
    /\ dd.text = <<"A", " ", "b", " ", "a", " ", "b">>
    /\ dd.shingles = << <<"a", " ", "b", " ", "a">>, <<"b", " ", "a", " ", "b">> >>
    /\ \E i \in 0..(FpBits - 1) : dd.v[i] = 0 /\ BitOf(dd.result, i) = 0
    /\ \E i \in 0..(FpBits - 1) : dd.v[i] = 2 /\ BitOf(dd.result, i) = 1

(***************************************************************************)
(* services/tag_generator.py: cs holds the arguments, locals and result    *)
(* of one call of generate_tags.  What YAKE, Kiwi and the tech-term scan   *)
(* extract from a text is any list of keywords.                            *)
(***************************************************************************)
MaxKeywords == 3
MaxTags == 2
MIN_TAG_LENGTH_EN == 2
MIN_TAG_LENGTH_KO == 1
MAX_TAG_LENGTH == 24

\* Raw keywords: two that differ in case only, two that differ in the case of
\* a numeral, a stopword, one that contains another, one with blanks and a
\* hyphen, and a Hangul syllable that is also a suffix rstrip removes.
Keywords ==
    { <<"a", "b">>, <<"A", "b">>, <<"b", "a">>, <<"VIII", "a">>, <<"viii", "a">>,
      <<"t", "o">>, <<"a", "b", "b">>, <<" ", "b", "-", "a", " ">>, <<"HANGUL_GA">> }

KeywordLists == UNION {[1..n -> Keywords] : n \in 0..MaxKeywords}

\* The title-only extraction asks for fewer keywords (top_n=10, not 30).
TitleKeywordLists == UNION {[1..n -> Keywords] : n \in 0..(MaxKeywords - 1)}

\* The members of ALL_STOPWORDS that the keywords can give.
ALL_STOPWORDS == { <<"t", "o">>, <<"a">> }

IsHangul(c) == c = "HANGUL_GA"
isalpha(c) == c \in {"a", "b", "t", "o", "A"} \/ IsHangul(c)
isalnum(c) == isalpha(c) \/ c \in {"VIII", "viii"}

\* s.lower()
LowerStr(s) == [k \in 1..Len(s) |-> lower(s[k])]

RECURSIVE lstrip(_, _)
lstrip(s, cs_) == IF s /= << >> /\ Head(s) \in cs_ THEN lstrip(Tail(s), cs_) ELSE s

RECURSIVE rstrip(_, _)
rstrip(s, cs_) ==
    IF s /= << >> /\ s[Len(s)] \in cs_ THEN rstrip(SubSeq(s, 1, Len(s) - 1), cs_) ELSE s

RECURSIVE CollapseRuns(_, _, _)
\* re.sub(c+, r, s)
CollapseRuns(s, c, r) ==
    IF s = << >> THEN << >>
    ELSE IF Head(s) = c
         THEN <<r>> \o CollapseRuns(lstrip(s, {c}), c, r)
         ELSE <<Head(s)>> \o CollapseRuns(Tail(s), c, r)

RECURSIVE KeepChars(_)
\* The loop over the characters: Hangul as it is, letters in lower case,
\* other alphanumerics and "_" as they are, everything else dropped.
KeepChars(tag) ==
    IF tag = << >> THEN << >>
    ELSE LET char == Head(tag)
             rest == KeepChars(Tail(tag))
         IN  IF IsHangul(char) THEN <<char>> \o rest
             ELSE IF isalnum(char) \/ char = "_"
                  THEN IF isalpha(char) THEN <<lower(char)>> \o rest
                       ELSE <<char>> \o rest
                  ELSE rest

\* The None that _normalize_tag returns: a list that no tag equals.
NoTag == <<"None">>

_normalize_tag(tag, language) ==
    IF tag = << >> THEN NoTag
    ELSE LET stripped == rstrip(lstrip(tag, {" "}), {" "})
             kept == KeepChars(CollapseRuns(stripped, " ", "_"))
             collapsed == CollapseRuns(kept, "_", "_")
             normalized == rstrip(lstrip(collapsed, {"_"}), {"_"})
             min_len == IF language = "ko" THEN MIN_TAG_LENGTH_KO ELSE MIN_TAG_LENGTH_EN
         IN  IF Len(normalized) < min_len \/ Len(normalized) > MAX_TAG_LENGTH
             THEN NoTag
             ELSE normalized

\* word.lower() in ALL_STOPWORDS
is_stopword(word) == LowerStr(word) \in ALL_STOPWORDS

RECURSIVE SplitOn(_, _)
\* tag.split(c)
SplitOn(s, c) ==
    IF s = << >> THEN << << >> >>
    ELSE LET rest == SplitOn(Tail(s), c)
         IN  IF Head(s) = c THEN << << >> >> \o rest
             ELSE <<(<<Head(s)>> \o Head(rest))>> \o Tail(rest)

_is_valid_tag(tag) ==
    LET parts == SplitOn(tag, "_")
        alpha_count == Cardinality({k \in 1..Len(tag) : isalpha(tag[k])})
    IN  /\ tag /= << >>
        /\ ~is_stopword(tag)
        /\ ~(/\ \E n \in 1..Len(parts) : parts[n] /= << >> /\ is_stopword(parts[n])
             /\ \A n \in 1..Len(parts) : parts[n] /= << >> => is_stopword(parts[n]))
        /\ alpha_count * 10 >= Len(tag) * 3

\* a in b, for strings
Contains(b, a) ==
    \E k \in 0..(Len(b) - Len(a)) : SubSeq(b, k + 1, k + Len(a)) = a

\* The test of one seen base in deduplicate_similar_tags (threshold 0.8).
SimilarBase(base, seen) ==
    \/ Contains(seen, base) \/ Contains(base, seen)
    \/ LET min_len == Min(Len(base), Len(seen))
           overlap == Cardinality({k \in 1..min_len : base[k] = seen[k]})
       IN  min_len > 2 /\ overlap * 10 >= 8 * min_len

RECURSIVE DedupFrom(_, _, _, _)
\* "for tag in tags", from the tag n on.
DedupFrom(tags, n, result, seen_bases) ==
    IF n > Len(tags) THEN result
    ELSE LET base == rstrip(tags[n], {"HANGUL_GA"})
         IN  IF \E seen \in seen_bases : SimilarBase(base, seen)
             THEN DedupFrom(tags, n + 1, result, seen_bases)
             ELSE DedupFrom(tags, n + 1, Append(result, tags[n]), seen_bases \cup {base})

deduplicate_similar_tags(tags) ==
    IF Len(tags) <= 1 THEN tags ELSE DedupFrom(tags, 1, << >>, {})

RECURSIVE Normalized(_, _, _, _, _)
\* "for keyword in candidates" (step 3), from the keyword n on: seen and tags.
Normalized(candidates, language, n, seen, tags) ==
    IF n > Len(candidates) THEN [seen |-> seen, tags |-> tags]
    ELSE LET normalized == _normalize_tag(candidates[n], language)
         IN  IF \/ normalized = NoTag
                \/ LowerStr(normalized) \in seen
                \/ ~_is_valid_tag(normalized)
             THEN Normalized(candidates, language, n + 1, seen, tags)
             ELSE Normalized(candidates, language, n + 1,
                             seen \cup {LowerStr(normalized)}, Append(tags, normalized))

\* Variant without the test of seen.
AddTitleTags_noseen(title_keywords, title_lang, min_tags, n, seen, tags) ==
    IF n > Len(title_keywords) THEN tags
    ELSE LET normalized == _normalize_tag(title_keywords[n], title_lang)
         IN  IF normalized /= NoTag /\ _is_valid_tag(normalized)
             THEN Append(tags, normalized)
             ELSE tags

RECURSIVE AddTitleTags(_, _, _, _, _, _)
\* "for keyword in title_keywords" (step 6), from the keyword n on.
AddTitleTags(title_keywords, title_lang, min_tags, n, seen, tags) ==
    IF n > Len(title_keywords) THEN tags
    ELSE LET normalized == _normalize_tag(title_keywords[n], title_lang)
         IN  IF /\ normalized /= NoTag
                /\ LowerStr(normalized) \notin seen
                /\ _is_valid_tag(normalized)
             THEN IF Len(tags) + 1 >= min_tags
                  THEN Append(tags, normalized)
                  ELSE AddTitleTags(title_keywords, title_lang, min_tags, n + 1,
                                    seen \cup {LowerStr(normalized)},
                                    Append(tags, normalized))
             ELSE AddTitleTags(title_keywords, title_lang, min_tags, n + 1, seen, tags)

\* "if len(combined_text) < 10: return []", and steps 1 to 5.
GtExtract ==
    /\ cs.pc = "gt_call"
    /\ IF cs.length < 10
       THEN cs' = [cs EXCEPT !.pc = "gt_returned", !.tags = << >>]
       ELSE \E candidates \in KeywordLists :
               LET step3 == Normalized(candidates, cs.language, 1, {}, << >>)
                   step4 == deduplicate_similar_tags(step3.tags)
               IN  cs' = [cs EXCEPT !.pc = "gt_title", !.seen = step3.seen,
                                    !.kept = Len(step4),
                                    !.tags = Take(step4, cs.max_tags)]
    /\ UNCHANGED <<batchVars, dd, mg>>

\* Step 6 and the return.
GtTitle ==
    /\ cs.pc = "gt_title"
    /\ IF Len(cs.tags) < cs.min_tags /\ cs.has_title
       THEN \E title_keywords \in TitleKeywordLists :
               cs' = [cs EXCEPT !.pc = "gt_returned", !.fallback = TRUE,
                                !.tags = AddTitleTags(title_keywords, cs.title_lang,
                                                      cs.min_tags, 1, cs.seen, cs.tags)]
       ELSE cs' = [cs EXCEPT !.pc = "gt_returned"]
    /\ UNCHANGED <<batchVars, dd, mg>>

\* A call with max_tags = MaxTags and a min_tags that is not larger (the
\* callers pass neither: 15 and 5).
InitTags ==
    /\ BatchIdle
    /\ dd = DdIdle
    /\ mg = MgIdle
    /\ \E length \in {9, 10}, has_title \in BOOLEAN, language \in {"ko", "en"},
          title_lang \in {"ko", "en"}, min_tags \in 1..MaxTags :
          cs = [pc |-> "gt_call", length |-> length, has_title |-> has_title,
                language |-> language, title_lang |-> title_lang,
                max_tags |-> MaxTags, min_tags |-> min_tags,
                seen |-> {}, kept |-> 0, tags |-> << >>, fallback |-> FALSE]

NextTags ==
    \/ GtExtract
    \/ GtTitle

SpecTags == InitTags /\ [][NextTags]_vars

(***************************************************************************)
(* C33: no duplicate and no excess tag                                     *)
(***************************************************************************)
\* C33: the list generate_tags returns has no two tags that are equal
\* ignoring case and has at most max_tags tags, also when the title-only
\* fallback added tags after the similar-tag deduplication.
C33_NoDuplicateAtMostMax ==
    cs.pc = "gt_returned" =>
        /\ Len(cs.tags) <= cs.max_tags
        /\ \A p, q \in 1..Len(cs.tags) :
              LowerStr(cs.tags[p]) = LowerStr(cs.tags[q]) => p = q

\* The deduplication removed a tag, the fallback ran and the list was filled
\* up to max_tags with a tag that has a cased numeral kept in upper case.
C33_Witness ==
    /\ cs.pc = "gt_returned" /\ cs.fallback
    /\ Cardinality(cs.seen) > cs.kept
    /\ Len(cs.tags) = cs.max_tags
    /\ cs.tags[Len(cs.tags)] = <<"VIII", "a">>

(***************************************************************************)
(* C34  When two overlapping invocations have both returned after          *)
(* replacing the clusters of the same owner, the owner's rows are those of *)
(* one of the two: no two rows share (user_id, cluster_id) and no rows of  *)
(* both invocations are left together.  (In InitOverlap the first owner is *)
(* the only one with embedded bookmarks, so an invocation that counted an  *)
(* owner replaced the rows of that one.)                                   *)
(***************************************************************************)
BothReplaced ==
    \A j \in Jobs : job[j].pc = "done" /\ job[j].stats.users_clustered >= 1

C34_RowsOfOneRun ==
    BothReplaced =>
        \A o \in Owners :
            /\ SameRun(o)
            /\ \A r1 \in RowsOf(o), r2 \in RowsOf(o) :
                  r1.cluster_id = r2.cluster_id => r1 = r2

(***************************************************************************)
(* C35  Item status is monotonic under overlapping invocations: no step    *)
(* changes the status of an item that is embedded or failed.               *)
(***************************************************************************)
C35_Step ==
    \A i \in Items :
        bookmarks[i].status \in {"embedded", "failed"}
          => bookmarks'[i].status = bookmarks[i].status

C35_StatusMonotonic == [][C35_Step]_vars

\* The number of bookmarks in status pending_embedding.
PendingNow(bm) ==
    Cardinality({i \in DOMAIN bm : bm[i].status = "pending_embedding"})

(***************************************************************************)
(* C36  Every iteration of the fetch loop of process_pending_embeddings    *)
(* strictly reduces the number of pending bookmarks, also when a status    *)
(* write raises and is caught: when the update loop of a batch ends, fewer *)
(* bookmarks are pending than when the batch was fetched.  (One invocation *)
(* at a time and no ingestion: the bookmarks pending at the fetch are      *)
(* those pending now and the rows of the batch already written.)           *)
(***************************************************************************)
C36_Step ==
    \A j \in Jobs :
        (job[j].pc = "embed_write" /\ job'[j].pc = "embed_fetch") =>
            LET rows == job[j].rows
                written == {k \in 1..Len(rows) :
                               bookmarks[rows[k]].status /= "pending_embedding"}
            IN  PendingNow(bookmarks') < PendingNow(bookmarks) + Cardinality(written)

C36_IterationReducesPending == [][C36_Step]_vars

(***************************************************************************)
(* C37  The chunk loop of a dry run ends: when a dry run has gone through  *)
(* a chunk, the next SELECT of the loop does not return that same chunk.   *)
(* (A dry run writes nothing and its statements depend on the tables and   *)
(* the rows alone, so the same chunk again is the same iteration again.)   *)
(***************************************************************************)
C37_Step ==
    (mg.dry_run /\ mg.pc = "tags" /\ mg'.pc = "fetch") =>
        FetchUnbackfilled(mg', mg.users[mg.u], ChunkSize) /= mg.rows

C37_DryRunChunkLoopEnds == [][C37_Step]_vars

\* No bookmark was saved since the first call of run_migration began.
NoIngestionSinceFirstCall ==
    /\ mg.runs >= 1
    /\ Len(mg.bookmarks) = mg.base
    /\ mg.runs = 1 \/ mg.resumed

(***************************************************************************)
(* C38  Whenever the checkpoint names an owner and no bookmark was saved   *)
(* since the first call began, every owner with an identifier at or below  *)
(* the checkpoint has no bookmark without fingerprint or tag link and has  *)
(* its duplicate groups built, whatever --user-id, --resume and --dry-run  *)
(* the calls had; so no owner skipped by --resume is incomplete.           *)
(***************************************************************************)
C38_CheckpointCoversLowerOwners ==
    (mg.checkpoint /= None /\ NoIngestionSinceFirstCall) =>
        \A user_id \in MgOwners :
            (user_id <= mg.checkpoint /\ BookmarksOf(user_id) /= {}) =>
                /\ UnbackfilledOf(mg, user_id) = {}
                /\ GroupsBuilt(user_id)

\* The bookmarks that have the status.
WithStatus(status) == {i \in Items : bookmarks[i].status = status}

(***************************************************************************)
(* C39  The counts a batch job returns match the store: when the first     *)
(* invocation has returned (every bookmark was pending when it began and   *)
(* nothing else wrote), embeddings_processed is the number of embedded     *)
(* bookmarks and embeddings_failed the number of failed ones, so that no   *)
(* bookmark is counted twice, also when a write or a later step raised.    *)
(***************************************************************************)
C39_CountsMatchStore ==
    (job[1].pc = "done" /\ runs = 1) =>
        /\ job[1].stats.embeddings_processed = Cardinality(WithStatus("embedded"))
        /\ job[1].stats.embeddings_failed = Cardinality(WithStatus("failed"))

====
